---- MODULE Spec2Model ----
(***************************************************************************)
(* A model of the tcg-listing-app repository: the identifier normalizers   *)
(* of the ingestion scripts, the token extractors, the candidate resolver  *)
(* and the variant disambiguator of streamlit_ocr_test.py, and the         *)
(* "Run Google OCR" handler that chains them, and the price refresh of     *)
(* scripts/refresh_prices_daily.py.                                        *)
(*                                                                         *)
(* A Python str is a sequence of one-character strings; None is the        *)
(* one-element sequence None, which no str equals.                         *)
(***************************************************************************)
EXTENDS Integers, Sequences, FiniteSets, TLC

VARIABLES
    nparts,     \* how the normalizer's input was written (kind, pieces)
    nraw,       \* the raw identifier string handed to a normalizer
    nfn,        \* which normalizer is exercised
    nouts,      \* its successive results: nouts[1] = f(nraw), nouts[2] = f(f(nraw))
    frows,      \* candidate rows handed to the disambiguator
    fname,      \* name token handed to filter_candidates_by_pokemon_name
    fres,       \* (filtered_df, applied_filter) it returned, or Unset
    fsum,       \* what summarize_variants returned for frows, or Unset
    cards,      \* table cards of data/tcg.sqlite
    prices_latest, \* table prices_latest
    dbExists,   \* DB_PATH.exists()
    persist,    \* the "Save OCR result to SQLite" checkbox
    ocr_runs,   \* table ocr_runs, in insertion order
    ocr_results,\* table ocr_results, in insertion order
    shown,      \* the locals of the last request and what it put on the page
    now,        \* the UTC clock, in refresh runs started
    run,        \* the locals of main of refresh_prices_daily.py, per process
    run_log,    \* table run_log, in insertion order
    prices_history, \* table prices_history, in insertion order
    delivered,  \* per (product_id, sub_type): the last price a feed held, and when
    etext,      \* text handed to a token extractor
    eres,       \* what the extractor returned for etext, or Unset
    fetch       \* the locals of get_results and the responses it has received

vars == <<nparts, nraw, nfn, nouts, frows, fname, fres, fsum,
          cards, prices_latest, dbExists, persist, ocr_runs, ocr_results, shown,
          now, run, run_log, prices_history, delivered, etext, eres, fetch>>

normVars == <<nparts, nraw, nfn, nouts>>
filterVars == <<frows, fname, fres, fsum>>
ocrVars == <<cards, prices_latest, dbExists, persist, ocr_runs, ocr_results, shown>>
refreshVars == <<now, run, run_log, prices_history, delivered>>
extractVars == <<etext, eres>>
fetchVars == <<fetch>>

None == <<"<None>">>
\* a result slot: empty until the operation has run, then holding what it returned
Unset == [done |-> FALSE, val |-> <<>>]
Done(v) == [done |-> TRUE, val |-> v]

-----------------------------------------------------------------------------
(* Characters and Python's str helpers                                     *)

DigitChars == <<"0", "1", "2", "3", "4", "5", "6", "7", "8", "9">>
UpperChars == <<"A", "B", "C", "D", "E", "F", "G", "H", "I", "J", "K", "L", "M",
                "N", "O", "P", "Q", "R", "S", "T", "U", "V", "W", "X", "Y", "Z">>
LowerChars == <<"a", "b", "c", "d", "e", "f", "g", "h", "i", "j", "k", "l", "m",
                "n", "o", "p", "q", "r", "s", "t", "u", "v", "w", "x", "y", "z">>

Range(s) == {s[i] : i \in DOMAIN s}

IsDigit(c) == c \in Range(DigitChars)
IsUpper(c) == c \in Range(UpperChars)
IsLower(c) == c \in Range(LowerChars)
IsAlpha(c) == IsUpper(c) \/ IsLower(c)
\* \s of re and the characters str.strip() removes
IsSpace(c) == c \in {" ", "\n", "\t"}
\* \w of re
IsWord(c) == IsAlpha(c) \/ IsDigit(c) \/ c = "_"

UpperC(c) == IF IsLower(c) THEN UpperChars[CHOOSE i \in DOMAIN LowerChars : LowerChars[i] = c] ELSE c
LowerC(c) == IF IsUpper(c) THEN LowerChars[CHOOSE i \in DOMAIN UpperChars : UpperChars[i] = c] ELSE c

\* str.upper(), str.lower()
Upper(s) == [i \in DOMAIN s |-> UpperC(s[i])]
Lower(s) == [i \in DOMAIN s |-> LowerC(s[i])]

\* s[i:] and s[:i] with 1-based i
From(s, i) == SubSeq(s, i, Len(s))
Upto(s, i) == SubSeq(s, 1, i)

\* number of leading characters of s in the class P
RECURSIVE SpanLen(_, _, _)
SpanLen(s, P(_), i) ==
    IF i <= Len(s) /\ P(s[i]) THEN SpanLen(s, P, i + 1) ELSE i - 1

\* index of the first character from position i on that is not a space (Len+1 if none)
SkipSpace(s, i) == SpanLen(s, IsSpace, i) + 1
\* index just after the run of digits that starts at i
SkipDigits(s, i) == SpanLen(s, IsDigit, i) + 1
SkipAlpha(s, i) == SpanLen(s, IsAlpha, i) + 1

\* one greedy step of a regular expression from position i of s: a run of a
\* character class, or one optional character; the position after it
Step(s, i, item) ==
    CASE item = "\\s*" -> SkipSpace(s, i)
      [] item = "\\d*" -> SkipDigits(s, i)
      [] item = "[A-Z]*" -> SkipAlpha(s, i)
      [] item = "/?" -> IF i <= Len(s) /\ s[i] = "/" THEN i + 1 ELSE i
      [] item = "-?" -> IF i <= Len(s) /\ s[i] = "-" THEN i + 1 ELSE i

\* the positions a sequence of greedy steps passes through, from i on
RECURSIVE Scan(_, _, _)
Scan(s, i, items) ==
    IF items = <<>> THEN <<i>>
    ELSE <<i>> \o Scan(s, Step(s, i, items[1]), Tail(items))

\* the least element of a non-empty set of positions
MinOf(S) == CHOOSE i \in S : \A j \in S : i <= j

RECURSIVE LastNonSpace(_, _)
LastNonSpace(s, i) == IF i >= 1 /\ IsSpace(s[i]) THEN LastNonSpace(s, i - 1) ELSE i

\* str.strip()
Strip(s) == SubSeq(s, SkipSpace(s, 1), LastNonSpace(s, Len(s)))

\* re.sub of a character class by "": the characters of s not in the class
Without(s, P(_)) == SelectSeq(s, LAMBDA c : ~P(c))

IsBlankChar(c) == c = " "
IsNonDigit(c) == ~IsDigit(c)
IsSpaceOrHyphen(c) == IsSpace(c) \/ c = "-"

DigitVal(c) == (CHOOSE i \in DOMAIN DigitChars : DigitChars[i] = c) - 1

\* int(ds) of a non-empty string of digits
RECURSIVE DigitsToInt(_)
DigitsToInt(ds) ==
    IF ds = <<>> THEN 0
    ELSE 10 * DigitsToInt(Upto(ds, Len(ds) - 1)) + DigitVal(ds[Len(ds)])

\* str(n)
RECURSIVE NatToStr(_)
NatToStr(n) ==
    IF n < 10 THEN <<DigitChars[n + 1]>>
    ELSE NatToStr(n \div 10) \o <<DigitChars[(n % 10) + 1]>>

IntToStr(n) == IF n < 0 THEN <<"-">> \o NatToStr(0 - n) ELSE NatToStr(n)

\* f"{n:0{width}d}" for n >= 0
RECURSIVE ZeroPad(_, _)
ZeroPad(ds, width) == IF Len(ds) >= width THEN ds ELSE ZeroPad(<<"0">> \o ds, width)

\* positions of "/" in s
SlashPositions(s) == {i \in DOMAIN s : s[i] = "/"}

\* int(s) of Python: surrounding whitespace and one sign are accepted
PyIntBody(s) == LET t == Strip(s) IN
    IF t # <<>> /\ t[1] \in {"-", "+"} THEN Tail(t) ELSE t
PyIntOk(s) == LET b == PyIntBody(s) IN b # <<>> /\ \A i \in DOMAIN b : IsDigit(b[i])
PyInt(s) == LET t == Strip(s) IN
    IF t[1] = "-" THEN 0 - DigitsToInt(PyIntBody(s)) ELSE DigitsToInt(PyIntBody(s))

-----------------------------------------------------------------------------
(* scripts/backfill_ext_number.py: the ingestion-side key ext_number_norm  *)

NoMatch == [ok |-> FALSE, g1 |-> <<>>, g2 |-> <<>>]

\* SLASH_RE = ^\s*(\d{1,4})\s*/\s*(\d{1,4})\s*$ over the positions pos of its steps
SlashMatched(s, pos) ==
    IF /\ (pos[3] - pos[2]) \in 1..4
       /\ pos[5] = pos[4] + 1
       /\ (pos[7] - pos[6]) \in 1..4
       /\ pos[8] = Len(s) + 1
    THEN [ok |-> TRUE, g1 |-> SubSeq(s, pos[2], pos[3] - 1), g2 |-> SubSeq(s, pos[6], pos[7] - 1)]
    ELSE NoMatch

\* SLASH_RE.match(s)
SLASH_RE_match(s) ==
    SlashMatched(s, Scan(s, 1, <<"\\s*", "\\d*", "\\s*", "/?", "\\s*", "\\d*", "\\s*">>))

\* PROMO_ALPHA_RE = ^\s*([A-Z]{2,6})\s*-?\s*(\d{1,4})\s*$ with re.I, over the
\* positions pos of its steps
PromoAlphaMatched(s, pos) ==
    IF /\ (pos[3] - pos[2]) \in 2..6
       /\ (pos[7] - pos[6]) \in 1..4
       /\ pos[8] = Len(s) + 1
    THEN [ok |-> TRUE, g1 |-> SubSeq(s, pos[2], pos[3] - 1), g2 |-> SubSeq(s, pos[6], pos[7] - 1)]
    ELSE NoMatch

\* PROMO_ALPHA_RE.match(s)
PROMO_ALPHA_RE_match(s) ==
    PromoAlphaMatched(s, Scan(s, 1, <<"\\s*", "[A-Z]*", "\\s*", "-?", "\\s*", "\\d*", "\\s*">>))

Min(a, b) == IF a < b THEN a ELSE b
Max(a, b) == IF a > b THEN a ELSE b

\* mutant: the width capped at 3, as the comment of line 29 words it
PromoWidth_cap3(tail) == Max(2, Min(3, Len(tail)))

\* width = max(2, min(4, len(tail)))
PromoWidth(tail) == Max(2, Min(4, Len(tail)))

\* lines 24-32, the promo branch: m2 is the match on raw.replace(" ", "") and
\* tail the digits of raw
PromoBranch(m2, tail) ==
    IF tail # <<>> /\ tail[1] = "0"
    THEN Upper(m2.g1) \o ZeroPad(NatToStr(DigitsToInt(m2.g2)), PromoWidth(tail))
    ELSE Upper(m2.g1) \o NatToStr(DigitsToInt(m2.g2))

\* lines 15-40 on the stripped raw, with m and m2 the two matches and digits the
\* digits of raw
NormExt(raw, m, m2, digits) ==
    IF raw = <<>> THEN raw
    ELSE IF m.ok THEN NatToStr(DigitsToInt(m.g1)) \o <<"/">> \o NatToStr(DigitsToInt(m.g2))
    ELSE IF m2.ok THEN PromoBranch(m2, digits)
    ELSE IF digits # <<>> /\ digits = raw THEN NatToStr(DigitsToInt(digits))
    ELSE Upper(Without(raw, IsSpaceOrHyphen))

NormExtStripped(raw) ==
    NormExt(raw, SLASH_RE_match(raw), PROMO_ALPHA_RE_match(Without(raw, IsBlankChar)),
            Without(raw, IsNonDigit))

norm_ext_number(raw0) == NormExtStripped(Strip(raw0))

-----------------------------------------------------------------------------
(* scripts/ingest_products.py: the ingestion-side key collector_number_norm *)

\* ^([A-Z]+)(\d+)$ over the positions pos of its steps; [A-Z] is upper case only
NumPartMatched(part, pos) ==
    IF /\ pos[2] > 1
       /\ \A i \in 1..(pos[2] - 1) : IsUpper(part[i])
       /\ pos[3] > pos[2]
       /\ pos[3] = Len(part) + 1
    THEN [ok |-> TRUE, g1 |-> SubSeq(part, 1, pos[2] - 1), g2 |-> SubSeq(part, pos[2], pos[3] - 1)]
    ELSE NoMatch

\* re.match(r"^([A-Z]+)(\d+)$", part)
NumPartMatch(part) == NumPartMatched(part, Scan(part, 1, <<"[A-Z]*", "\\d*">>))

\* lines 70-88 on the stripped, upper-cased part, with m its match
NormPart(part, m) ==
    IF part = <<>> THEN part
    ELSE IF m.ok THEN m.g1 \o NatToStr(DigitsToInt(m.g2))
    ELSE IF \A i \in DOMAIN part : IsDigit(part[i]) THEN NatToStr(DigitsToInt(part))
    ELSE part

NormPartUpper(part) == NormPart(part, NumPartMatch(part))

normalize_num_part(part0) == NormPartUpper(Upper(Strip(part0)))

\* lines 97-101 on s = raw.strip().upper() without whitespace, with sl the
\* positions of "/" in it: split("/", 1)
NormCollector(s, sl) ==
    IF sl # {}
    THEN normalize_num_part(Upto(s, MinOf(sl) - 1)) \o <<"/">>
             \o normalize_num_part(From(s, MinOf(sl) + 1))
    ELSE normalize_num_part(s)

NormCollectorUpper(s) == NormCollector(s, SlashPositions(s))

normalize_collector_number(raw) ==
    IF raw = None \/ raw = <<>> THEN None
    ELSE NormCollectorUpper(Without(Upper(Strip(raw)), IsSpace))

-----------------------------------------------------------------------------
(* streamlit_ocr_test.py: the lookup-side normalizers                      *)

\* lines 150-154 with a and b the two sides of the only "/" of raw
NormSlashParts(raw, a, b) ==
    IF PyIntOk(a) /\ PyIntOk(b)
    THEN IntToStr(PyInt(a)) \o <<"/">> \o IntToStr(PyInt(b))
    ELSE Strip(raw)

NormSlashAt(raw, sl) ==
    IF Cardinality(sl) = 1
    THEN NormSlashParts(raw, Upto(raw, MinOf(sl) - 1), From(raw, MinOf(sl) + 1))
    ELSE Strip(raw)

normalize_slash(raw) == NormSlashAt(raw, SlashPositions(raw))

normalize_promo(raw) ==
    Upper(Without(Strip(IF raw = None THEN <<>> ELSE raw), IsSpaceOrHyphen))

-----------------------------------------------------------------------------
(* streamlit_ocr_test.py: the variant disambiguator                        *)
(* A DataFrame is the sequence of its rows; a row is a record of the       *)
(* columns product_id, group_id, product_name, sub_type, market_price.     *)
(* A market_price is a record: the null of the left join, or a number.     *)

NullPrice == [null |-> TRUE, v |-> 0]
Price(n) == [null |-> FALSE, v |-> n]

Row(pid, gid, name, sub, price) ==
    [product_id |-> pid, group_id |-> gid, product_name |-> name,
     sub_type |-> sub, market_price |-> price]

\* the characters of the model in code-point order
AsciiChars == <<"\t", "\n", " ", "&", "'", "-", "/">> \o DigitChars \o UpperChars \o <<"_">> \o LowerChars
Ord(c) == CHOOSE i \in DOMAIN AsciiChars : AsciiChars[i] = c

\* a < b for two str, by code points
RECURSIVE StrLess(_, _)
StrLess(a, b) ==
    IF b = <<>> THEN FALSE
    ELSE IF a = <<>> THEN TRUE
    ELSE IF a[1] = b[1] THEN StrLess(Tail(a), Tail(b))
    ELSE Ord(a[1]) < Ord(b[1])

\* needle in hay
Contains(hay, needle) ==
    \E i \in 0..(Len(hay) - Len(needle)) : SubSeq(hay, i + 1, i + Len(needle)) = needle

\* mutant: the display name is not lower-cased before the test
NameMask_casesensitive(row, needle) ==
    IF row.product_name = None THEN FALSE ELSE Contains(row.product_name, needle)

\* df["product_name"].str.lower().str.contains(re.escape(needle), na=False), for one row
NameMask(row, needle) ==
    IF row.product_name = None THEN FALSE ELSE Contains(Lower(row.product_name), needle)

\* mutant: the filtered frame is returned also when it is empty
filter_without_empty_guard(df, pokemon_name) ==
    IF df = <<>> \/ pokemon_name = None \/ pokemon_name = <<>>
    THEN [df |-> df, applied |-> FALSE]
    ELSE LET needle == Lower(Strip(pokemon_name))
             filtered == SelectSeq(df, LAMBDA r : NameMask(r, needle))
         IN  IF needle = <<>> THEN [df |-> df, applied |-> FALSE]
             ELSE [df |-> filtered, applied |-> TRUE]

\* mutant: a blank name token is not rejected after stripping
filter_without_blank_guard(df, pokemon_name) ==
    IF df = <<>> \/ pokemon_name = None \/ pokemon_name = <<>>
    THEN [df |-> df, applied |-> FALSE]
    ELSE LET needle == Lower(Strip(pokemon_name))
             filtered == SelectSeq(df, LAMBDA r : NameMask(r, needle))
         IN  IF filtered = <<>> THEN [df |-> df, applied |-> FALSE]
             ELSE [df |-> filtered, applied |-> TRUE]

filter_candidates_by_pokemon_name(df, pokemon_name) ==
    IF df = <<>> \/ pokemon_name = None \/ pokemon_name = <<>>
    THEN [df |-> df, applied |-> FALSE]
    ELSE LET needle == Lower(Strip(pokemon_name))
             filtered == SelectSeq(df, LAMBDA r : NameMask(r, needle))
         IN  IF needle = <<>> THEN [df |-> df, applied |-> FALSE]
             ELSE IF filtered = <<>> THEN [df |-> df, applied |-> FALSE]
             ELSE [df |-> filtered, applied |-> TRUE]

\* order of two column values; a null sorts last (pandas) or first (SQLite)
ValLess(x, y, nullsFirst, less(_, _)) ==
    IF x = None \/ y = None
    THEN IF nullsFirst THEN x = None /\ y # None ELSE x # None /\ y = None
    ELSE less(x, y)

IntLess(x, y) == x < y

\* row r sorts strictly before row q on (group_id, product_name, sub_type)
RowLess(r, q, nullsFirst) ==
    \/ IntLess(r.group_id, q.group_id)
    \/ /\ r.group_id = q.group_id
       /\ \/ ValLess(r.product_name, q.product_name, nullsFirst, StrLess)
          \/ /\ r.product_name = q.product_name
             /\ ValLess(r.sub_type, q.sub_type, nullsFirst, StrLess)

\* r put into the sorted sequence s after every row that does not sort after it
RECURSIVE InsertRow(_, _, _)
InsertRow(s, r, nullsFirst) ==
    IF s = <<>> THEN <<r>>
    ELSE IF RowLess(r, s[1], nullsFirst) THEN <<r>> \o s
    ELSE <<s[1]>> \o InsertRow(Tail(s), r, nullsFirst)

\* df.sort_values(["group_id", "product_name", "sub_type"]): stable, nulls last
RECURSIVE sort_values(_)
sort_values(df) ==
    IF df = <<>> THEN <<>>
    ELSE InsertRow(sort_values(Upto(df, Len(df) - 1)), df[Len(df)], FALSE)

\* mutant: duplicates dropped by product_id alone
DedupKey_product_only(r) == <<r.product_id, None>>

\* the columns drop_duplicates compares
DedupKey(r) == <<r.product_id, r.sub_type>>

\* df.drop_duplicates(subset=["product_id", "sub_type"]): the first row of each key is kept
drop_duplicates(df) ==
    LET keep(i) == \A j \in 1..(i - 1) : DedupKey(df[j]) # DedupKey(df[i])
        idx(k) == CHOOSE i \in DOMAIN df :
                      /\ keep(i)
                      /\ Cardinality({j \in 1..i : keep(j)}) = k
    IN  [k \in 1..Cardinality({i \in DOMAIN df : keep(i)}) |-> df[idx(k)]]

\* mutant: nunique(dropna=False), a null counted as a value
nunique_with_null(vals, nullable) == Cardinality(vals)

\* Series.nunique(): the number of distinct non-null values; product_id, the
\* primary key of cards, is never null
nunique(vals, nullable) == IF nullable THEN Cardinality(vals \ {None}) ELSE Cardinality(vals)

HasVariations(product_ct, subtype_ct) == (product_ct > 1) \/ (subtype_ct > 1)

summarize_variants(df) ==
    IF df = <<>>
    THEN [has_variations |-> FALSE, variant_product_count |-> 0,
          variant_subtype_count |-> 0, options_df |-> <<>>]
    ELSE LET opt == drop_duplicates(sort_values(df))
             product_ct == nunique({opt[i].product_id : i \in DOMAIN opt}, FALSE)
             subtype_ct == nunique({opt[i].sub_type : i \in DOMAIN opt}, TRUE)
         IN  [has_variations |-> HasVariations(product_ct, subtype_ct),
              variant_product_count |-> product_ct,
              variant_subtype_count |-> subtype_ct,
              options_df |-> opt]

-----------------------------------------------------------------------------
(* streamlit_ocr_test.py: the token extractor                              *)

\* \b of re at position i of s: between s[i-1] and s[i], one a word character
\* and the other not (the ends of s count as non-word)
WordAt(s, i) == i >= 1 /\ i <= Len(s) /\ IsWord(s[i])
Boundary(s, i) == WordAt(s, i - 1) # WordAt(s, i)

\* SLASH_RE = \b(\d{1,4}\s*/\s*\d{1,4})\b over the positions pos of its steps
SlashFound(s, pos) ==
    IF /\ Boundary(s, pos[1])
       /\ (pos[2] - pos[1]) \in 1..4
       /\ pos[4] = pos[3] + 1
       /\ (pos[6] - pos[5]) \in 1..4
       /\ Boundary(s, pos[6])
    THEN [ok |-> TRUE, g1 |-> SubSeq(s, pos[1], pos[6] - 1), g2 |-> <<>>]
    ELSE NoMatch

\* the match of SLASH_RE that starts at i
SlashAt(s, i) == SlashFound(s, Scan(s, i, <<"\\d*", "\\s*", "/?", "\\s*", "\\d*">>))

FirstHit(hits) == IF hits = {} THEN 0 ELSE MinOf(hits)

\* the leftmost position at which at(s, i) matches, or 0
FirstMatch(s, at(_, _)) == FirstHit({i \in DOMAIN s : at(s, i).ok})

\* re.search: the match at the leftmost position i, NoMatch when i = 0
MatchFrom(s, at(_, _), i) == IF i = 0 THEN NoMatch ELSE at(s, i)

\* SLASH_RE.search(text)
SLASH_RE_search(s) == MatchFrom(s, SlashAt, FirstMatch(s, SlashAt))

SlashToken(m) == IF ~m.ok THEN None ELSE Without(m.g1, IsBlankChar)

parse_slash_number(text) == SlashToken(SLASH_RE_search(IF text = None THEN <<>> ELSE text))

\* the alternatives of PROMO_RE, in its order
PromoPrefixList == <<<<"S", "V", "P">>, <<"S", "W", "S", "H">>, <<"S", "M">>, <<"X", "Y">>, <<"B", "W">>, <<"D", "P">>, <<"H", "G", "S", "S">>, <<"P", "O", "P">>>>

\* s holds word w at position i, letter case ignored
HasWordAt(s, i, w) == i + Len(w) - 1 <= Len(s) /\ Upper(SubSeq(s, i, i + Len(w) - 1)) = w

\* PROMO_RE = \b(SVP|SWSH|SM|XY|BW|DP|HGSS|POP)\s*-?\s*(\d{1,4})\b (re.I) after
\* the prefix that starts at i, over the positions pos of the steps that follow it
PromoFound(s, i, pos) ==
    IF (pos[5] - pos[4]) \in 1..4 /\ Boundary(s, pos[5])
    THEN [ok |-> TRUE, g1 |-> SubSeq(s, i, pos[1] - 1), g2 |-> SubSeq(s, pos[4], pos[5] - 1)]
    ELSE NoMatch

PromoAfter(s, i, p2) == PromoFound(s, i, Scan(s, p2, <<"\\s*", "-?", "\\s*", "\\d*">>))

\* alternative k of the prefix at position i, and the rest of PROMO_RE after it
PromoTry(s, i, k) ==
    IF HasWordAt(s, i, PromoPrefixList[k])
    THEN PromoAfter(s, i, i + Len(PromoPrefixList[k]))
    ELSE NoMatch

PromoPick(s, i, good) ==
    IF Boundary(s, i) /\ good # {} THEN PromoTry(s, i, MinOf(good)) ELSE NoMatch

\* the match of PROMO_RE that starts at i: its first alternative that matches
PromoAt(s, i) == PromoPick(s, i, {k \in DOMAIN PromoPrefixList : PromoTry(s, i, k).ok})

\* PROMO_RE.search(text)
PROMO_RE_search(s) == MatchFrom(s, PromoAt, FirstMatch(s, PromoAt))

\* the window of WOTC_PROMO_NUM_RE: [\s\S]{0,140}?
PromoWindow == 140

\* \b(\d{1,3})\b with the digits s[j..d2-1]
WotcNumber(s, j, d2) == Boundary(s, j) /\ (d2 - j) \in 1..3 /\ Boundary(s, d2)

\* where a 1-3 digit number starts within the window after position e
WotcStarts(s, e) ==
    {j \in e..Min(Len(s), e + PromoWindow) : IsDigit(s[j]) /\ WotcNumber(s, j, SkipDigits(s, j))}

WotcGroup(s, j) == [ok |-> TRUE, g1 |-> SubSeq(s, j, SkipDigits(s, j) - 1), g2 |-> <<>>]

WotcPick(s, i, e, starts) ==
    IF /\ HasWordAt(s, i, <<"P", "R", "O", "M", "O">>)
       /\ Boundary(s, i)
       /\ Boundary(s, e)
       /\ starts # {}
    THEN WotcGroup(s, MinOf(starts))
    ELSE NoMatch

\* the match of WOTC_PROMO_NUM_RE = \bPROMO\b[\s\S]{0,140}?\b(\d{1,3})\b (re.I) that
\* starts at i: the nearest 1-3 digit number within the window after the word
WotcAt(s, i) == WotcPick(s, i, i + 5, WotcStarts(s, i + 5))

\* WOTC_PROMO_NUM_RE.search(text)
WOTC_PROMO_NUM_RE_search(s) == MatchFrom(s, WotcAt, FirstMatch(s, WotcAt))

\* lines 159-162: f"{prefix}{int(num):0{len(num)}d}" with a leading zero, else
\* f"{prefix}{int(num)}"
PromoCode(prefix, num) ==
    prefix \o (IF num[1] = "0"
               THEN ZeroPad(NatToStr(DigitsToInt(num)), Len(num))
               ELSE NatToStr(DigitsToInt(num)))

\* mutant: the "PROMO ... <integer>" pattern is consulted first
PromoToken_wotc_first(m, m2) ==
    IF m2.ok THEN NatToStr(DigitsToInt(m2.g1))
    ELSE IF m.ok THEN PromoCode(Upper(m.g1), m.g2)
    ELSE None

PromoToken(m, m2) ==
    IF m.ok THEN PromoCode(Upper(m.g1), m.g2)
    ELSE IF m2.ok THEN NatToStr(DigitsToInt(m2.g1))
    ELSE None

PromoSearch(text) == PromoToken(PROMO_RE_search(text), WOTC_PROMO_NUM_RE_search(text))

parse_promo_number(text0) == PromoSearch(IF text0 = None THEN <<>> ELSE text0)

\* STOPWORDS and CARD_SUFFIXES, without the two entries that hold a non-ASCII
\* letter, which no text of the model can spell
STOPWORDS ==
    { <<"b", "a", "s", "i", "c">>, <<"s", "t", "a", "g", "e">>,
      <<"p", "o", "k", "e", "m", "o", "n">>, <<"t", "r", "a", "i", "n", "e", "r">>,
      <<"e", "n", "e", "r", "g", "y">>, <<"h", "p">>,
      <<"w", "e", "a", "k", "n", "e", "s", "s">>,
      <<"r", "e", "s", "i", "s", "t", "a", "n", "c", "e">>,
      <<"r", "e", "t", "r", "e", "a", "t">>, <<"r", "u", "l", "e">>,
      <<"i", "l", "l", "u", "s">>,
      <<"i", "l", "l", "u", "s", "t", "r", "a", "t", "i", "o", "n">>,
      <<"a", "t", "t", "a", "c", "k">>, <<"a", "t", "t", "a", "c", "k", "s">>,
      <<"a", "b", "i", "l", "i", "t", "y">>, <<"a", "b", "i", "l", "i", "t", "i", "e", "s">> }

\* mutant: no suffix is dropped from the name
CARD_SUFFIXES_none == {}

CARD_SUFFIXES ==
    { <<"g", "x">>, <<"e", "x">>, <<"v">>, <<"v", "m", "a", "x">>, <<"v", "s", "t", "a", "r">>,
      <<"l", "v">>, <<"l", "v", "l">>, <<"t", "a", "g">>, <<"t", "e", "a", "m">>,
      <<"b", "r", "e", "a", "k">>, <<"p", "r", "i", "m", "e">>, <<"d", "e", "l", "t", "a">>,
      <<"r", "a", "d", "i", "a", "n", "t">> }

\* the substrings that mark a boilerplate line
BoilerplateTokens ==
    { <<"w", "e", "a", "k", "n", "e", "s", "s">>,
      <<"r", "e", "s", "i", "s", "t", "a", "n", "c", "e">>,
      <<"r", "e", "t", "r", "e", "a", "t">>, <<"i", "l", "l", "u", "s">>,
      <<"r", "u", "l", "e">> }

\* the pieces of s between the occurrences of a character of sep
RECURSIVE SplitOn(_, _)
SplitOn(s, sep) ==
    LET k == SpanLen(s, LAMBDA c : c \notin sep, 1)
    IN  IF k = Len(s) THEN <<s>>
        ELSE <<Upto(s, k)>> \o SplitOn(From(s, k + 2), sep)

NonEmpty(parts) == SelectSeq(parts, LAMBDA x : x # <<>>)

\* [ln.strip() for ln in text.splitlines() if ln.strip()]
StrippedLines(text) ==
    LET raw == SplitOn(text, {"\n"})
    IN  NonEmpty([i \in DOMAIN raw |-> Strip(raw[i])])

\* str.split(): the whitespace-separated words
SplitWords(s) == NonEmpty(SplitOn(s, {" ", "\n", "\t"}))

\* " ".join(words)
RECURSIVE JoinWords(_)
JoinWords(ws) ==
    IF ws = <<>> THEN <<>>
    ELSE IF Len(ws) = 1 THEN ws[1]
    ELSE ws[1] \o <<" ">> \o JoinWords(Tail(ws))

\* a character re.sub(r"[^A-Za-z0-9'’\-\s&]", " ", ln) keeps
IsNameChar(c) == IsAlpha(c) \/ IsDigit(c) \/ IsSpace(c) \/ c \in {"'", "-", "&"}

\* how many of the first lines of the text are tried: lines[:30] + lines[30:60]
CandidateLines == 60

\* lines 205-220: the words of the cleaned line that are neither stopwords nor
\* suffixes nor a lone "&"
KeptWords(ln) ==
    SelectSeq(SplitWords([i \in DOMAIN ln |-> IF IsNameChar(ln[i]) THEN ln[i] ELSE " "]),
              LAMBDA t : /\ Lower(t) \notin STOPWORDS
                         /\ Lower(t) \notin CARD_SUFFIXES
                         /\ Lower(t) \notin {<<"&">>})

\* mutant: a name of any length is accepted
NameCheck_any_length(ln, kept, name) ==
    IF \E tok \in BoilerplateTokens : Contains(Lower(ln), tok) THEN None
    ELSE IF Len(SelectSeq(ln, IsAlpha)) < 4 THEN None
    ELSE IF kept = <<>> THEN None
    ELSE IF Lower(name) \in STOPWORDS THEN None
    ELSE name

NameCheck(ln, kept, name) ==
    IF \E tok \in BoilerplateTokens : Contains(Lower(ln), tok) THEN None
    ELSE IF Len(SelectSeq(ln, IsAlpha)) < 4 THEN None
    ELSE IF kept = <<>> THEN None
    ELSE IF Lower(name) \in STOPWORDS THEN None
    ELSE IF Len(name) < 3 \/ Len(name) > 30 THEN None
    ELSE name

\* the name one line yields, or None when a filter rejects the line
NameOfLine(ln) == NameCheck(ln, KeptWords(ln), Strip(JoinWords(KeptWords(ln))))

FirstName(cand, good) == IF good = {} THEN None ELSE NameOfLine(cand[MinOf(good)])

\* the first candidate line that yields a name
NameOfLines(cand) == FirstName(cand, {i \in DOMAIN cand : NameOfLine(cand[i]) # None})

FirstLines(lines) == Upto(lines, Min(Len(lines), CandidateLines))

extract_pokemon_name(text) ==
    IF text = None \/ text = <<>> THEN None
    ELSE NameOfLines(FirstLines(StrippedLines(text)))

-----------------------------------------------------------------------------
(* The catalog as ingestion leaves it, and the candidate resolver          *)

\* the cards row that ingest_products.py (collector_number_*) and
\* backfill_ext_number.py (ext_number_*) store for a product printed with `number`
IngestedCard(pid, gid, name, number) ==
    [product_id |-> pid, group_id |-> gid, product_name |-> name,
     collector_number_raw |-> number,
     collector_number_norm |-> normalize_collector_number(number),
     ext_number_raw |-> Strip(number),
     ext_number_norm |-> norm_ext_number(Strip(number))]

\* a row of prices_latest, written by a refresh at time 0
PriceRow(pid, sub, price) ==
    [product_id |-> pid, sub_type |-> sub, market_price |-> price, updated_at |-> 0]

\* mutant: an inner join, which drops the card without a price row
JoinCard_inner(c, ps) ==
    LET mine == SelectSeq(ps, LAMBDA q : q.product_id = c.product_id)
    IN  [i \in DOMAIN mine |->
            Row(c.product_id, c.group_id, c.product_name, mine[i].sub_type, mine[i].market_price)]

\* FROM cards c LEFT JOIN prices_latest p ON p.product_id = c.product_id, for one card
JoinCard(c, ps) ==
    LET mine == SelectSeq(ps, LAMBDA q : q.product_id = c.product_id)
    IN  IF mine = <<>>
        THEN <<Row(c.product_id, c.group_id, c.product_name, None, NullPrice)>>
        ELSE [i \in DOMAIN mine |->
                 Row(c.product_id, c.group_id, c.product_name, mine[i].sub_type, mine[i].market_price)]

\* the joined rows of the cards with WHERE c.<column> = key, in scan order
RECURSIVE JoinWhere(_, _, _, _)
JoinWhere(cs, ps, column, key) ==
    IF cs = <<>> THEN <<>>
    ELSE (IF cs[1][column] = key THEN JoinCard(cs[1], ps) ELSE <<>>)
             \o JoinWhere(Tail(cs), ps, column, key)

\* ORDER BY c.group_id, c.product_name, p.sub_type: every arrangement of the rows
\* that is ascending on the three columns, nulls first; SQL leaves the order of
\* rows that tie on all three open
OrderBy(rows) ==
    LET n == Len(rows)
        perms == {f \in [1..n -> 1..n] : \A i, j \in 1..n : i # j => f[i] # f[j]}
        sorted == {f \in perms : \A i \in 1..(n - 1) : ~RowLess(rows[f[i + 1]], rows[f[i]], TRUE)}
    IN  {[i \in 1..n |-> rows[f[i]]] : f \in sorted}

NoStrategy == "None"

\* `if collector_norm:` - neither None nor ""
Truthy(x) == x # None /\ x # <<>>

\* mutant: a collector query that finds no row falls back to the promo key
query_with_fallback(cs, ps, collector_norm, promo_norm) ==
    IF /\ Truthy(collector_norm)
       /\ (JoinWhere(cs, ps, "collector_number_norm", collector_norm) # <<>> \/ ~Truthy(promo_norm))
    THEN [strategy |-> "collector_number_norm", sql |-> TRUE,
          dfs |-> OrderBy(JoinWhere(cs, ps, "collector_number_norm", collector_norm))]
    ELSE IF Truthy(promo_norm)
    THEN [strategy |-> "ext_number_norm", sql |-> TRUE,
          dfs |-> OrderBy(JoinWhere(cs, ps, "ext_number_norm", promo_norm))]
    ELSE [strategy |-> NoStrategy, sql |-> FALSE, dfs |-> {<<>>}]

\* mutant: the promo query is made without testing that a promo key is present
query_without_promo_guard(cs, ps, collector_norm, promo_norm) ==
    IF Truthy(collector_norm)
    THEN [strategy |-> "collector_number_norm", sql |-> TRUE,
          dfs |-> OrderBy(JoinWhere(cs, ps, "collector_number_norm", collector_norm))]
    ELSE [strategy |-> "ext_number_norm", sql |-> TRUE,
          dfs |-> OrderBy(JoinWhere(cs, ps, "ext_number_norm", promo_norm))]

\* (strategy, the frames the query may return), and whether read_sql_query is called
query_candidates_by_number(cs, ps, collector_norm, promo_norm) ==
    IF Truthy(collector_norm)
    THEN [strategy |-> "collector_number_norm", sql |-> TRUE,
          dfs |-> OrderBy(JoinWhere(cs, ps, "collector_number_norm", collector_norm))]
    ELSE IF Truthy(promo_norm)
    THEN [strategy |-> "ext_number_norm", sql |-> TRUE,
          dfs |-> OrderBy(JoinWhere(cs, ps, "ext_number_norm", promo_norm))]
    ELSE [strategy |-> NoStrategy, sql |-> FALSE, dfs |-> {<<>>}]

-----------------------------------------------------------------------------
(* Inputs of the normalizers                                               *)

MaxRawLen == 3
MaxDigits == 5

StrsUpTo(A, n) == UNION {[1..k -> A] : k \in 0..n}

NormAlphabet == {"0", "5", "S", "m", "/", " ", "-"}
DigitStrs == UNION {[1..k -> {"0", "5"}] : k \in 1..MaxDigits}
ShortDigitStrs == {<<"5">>, <<"0", "5">>}
Pads == {<<>>, <<" ">>, <<"\t", " ">>}
PromoPrefixes == {<<"S", "M">>, <<"s", "m">>, <<"S", "w", "s", "h">>,
                  <<"P", "R", "O", "M", "O", "S">>, <<"S">>,
                  <<"P", "R", "O", "M", "O", "S", "X">>}
PromoSeps == {<<>>, <<" ">>, <<"-">>, <<" ", "-", " ">>, <<" ", " ">>}

FreeInputs ==
    {[kind |-> "free", a |-> <<>>, b |-> <<>>, raw |-> r] : r \in StrsUpTo(NormAlphabet, MaxRawLen)}

\* "a/b" written with whitespace p around the whole and q around the slash
SlashInputs ==
    {[kind |-> "slash", a |-> ab[1], b |-> ab[2],
      raw |-> pq[1] \o ab[1] \o pq[2] \o <<"/">> \o pq[2] \o ab[2] \o pq[1]] :
        ab \in (DigitStrs \X ShortDigitStrs) \cup (ShortDigitStrs \X DigitStrs),
        pq \in Pads \X Pads}

\* a letter prefix a and a digit suffix b with a separator between them
PromoInputs ==
    {[kind |-> "promo", a |-> ab[1], b |-> ab[2], raw |-> ab[1] \o sep \o ab[2]] :
        ab \in PromoPrefixes \X DigitStrs, sep \in PromoSeps}

NormInputs == FreeInputs \cup SlashInputs \cup PromoInputs

NormFns == {"norm_ext_number", "normalize_collector_number", "normalize_slash", "normalize_promo"}

IdleNorm ==
    /\ nparts = [kind |-> "free", a |-> <<>>, b |-> <<>>]
    /\ nraw = <<>>
    /\ nfn = "idle"
    /\ nouts = <<>>

IdleFilter ==
    /\ frows = <<>>
    /\ fname = None
    /\ fres = Unset
    /\ fsum = Unset

\* get_results has not been called
NoErr == [class |-> "None", attempt |-> 0]
NoResult == [kind |-> "none", items |-> <<>>, err |-> NoErr]
NoFetch == [pc |-> "idle", retries |-> 0, last_err |-> NoErr, result |-> NoResult, log |-> <<>>]

\* no refresh run is under way
NoRun ==
    [phase |-> "idle", run_id |-> 0, captured_at |-> 0, snapshot_date |-> 0, todo |-> <<>>,
     exit |-> "none"]

IdleRefresh ==
    /\ now = 0
    /\ run = <<NoRun>>
    /\ run_log = <<>>
    /\ prices_history = <<>>
    /\ delivered = {}
    /\ etext = <<>>
    /\ eres = Unset
    /\ fetch = NoFetch

IdleOcr ==
    /\ cards = <<>>
    /\ prices_latest = <<>>
    /\ dbExists = FALSE
    /\ persist = FALSE
    /\ ocr_runs = <<>>
    /\ ocr_results = <<>>
    /\ shown = <<>>

InitNorm ==
    /\ \E x \in NormInputs :
          /\ nparts = [kind |-> x.kind, a |-> x.a, b |-> x.b]
          /\ nraw = x.raw
    /\ nfn \in NormFns
    /\ nouts = <<>>
    /\ IdleFilter
    /\ IdleOcr
    /\ IdleRefresh

\* the value the next application works on: the input, then the previous result
NormCur == IF nouts = <<>> THEN nraw ELSE nouts[Len(nouts)]

ApplyNorm(fn, result) ==
    /\ nfn = fn
    /\ Len(nouts) < 2
    /\ nouts' = Append(nouts, result)
    /\ UNCHANGED <<nparts, nraw, nfn>>
    /\ UNCHANGED filterVars
    /\ UNCHANGED ocrVars
    /\ UNCHANGED refreshVars
    /\ UNCHANGED extractVars
    /\ UNCHANGED fetchVars

ApplyNormExt == ApplyNorm("norm_ext_number", norm_ext_number(NormCur))
ApplyNormCollector == ApplyNorm("normalize_collector_number", normalize_collector_number(NormCur))
ApplyNormSlash == ApplyNorm("normalize_slash", normalize_slash(NormCur))
ApplyNormPromo == ApplyNorm("normalize_promo", normalize_promo(NormCur))

NextNorm ==
    \/ ApplyNormExt
    \/ ApplyNormCollector
    \/ ApplyNormSlash
    \/ ApplyNormPromo

SpecNorm == InitNorm /\ [][NextNorm]_vars

-----------------------------------------------------------------------------
(* Inputs of the disambiguator                                             *)

MaxRows == 3

PikaV == <<"P", "i", "k", "a", " ", "V">>
Pikachu == <<"p", "i", "k", "a", "c", "h", "u">>
Raichu == <<"R", "a", "i", "c", "h", "u">>
Holo == <<"H">>
Reverse == <<"R">>

\* rows as the join yields them, a row whose product_name is null, and a second
\* row for one (product_id, sub_type) pair
RowPool ==
    { Row(1, 1, PikaV, Holo, Price(5)), Row(1, 1, PikaV, Reverse, Price(7)),
      Row(1, 1, PikaV, Holo, Price(9)), Row(2, 1, Raichu, None, NullPrice),
      Row(3, 2, Pikachu, Holo, NullPrice), Row(4, 1, None, Reverse, Price(7)) }

\* name tokens as extract_pokemon_name returns them (None, or a stripped name), and
\* the empty and the blank str that lines 310-315 guard against
NameTokens ==
    { None, <<>>, <<" ">>, <<"P", "i", "k", "a">>, <<"p", "I", "K", "a">>,
      <<"c", "h", "u">>, <<"S", "n", "o", "r">>, <<"a", " ", "V">> }

InitFilter ==
    /\ frows \in StrsUpTo(RowPool, MaxRows)
    /\ fname \in NameTokens
    /\ fres = Unset
    /\ fsum = Unset
    /\ IdleNorm
    /\ IdleOcr
    /\ IdleRefresh

ApplyFilter ==
    /\ ~fres.done
    /\ fres' = Done(filter_candidates_by_pokemon_name(frows, fname))
    /\ UNCHANGED <<frows, fname, fsum>>
    /\ UNCHANGED normVars
    /\ UNCHANGED ocrVars
    /\ UNCHANGED refreshVars
    /\ UNCHANGED extractVars
    /\ UNCHANGED fetchVars

ApplySummarize ==
    /\ ~fsum.done
    /\ fsum' = Done(summarize_variants(frows))
    /\ UNCHANGED <<frows, fname, fres>>
    /\ UNCHANGED normVars
    /\ UNCHANGED ocrVars
    /\ UNCHANGED refreshVars
    /\ UNCHANGED extractVars
    /\ UNCHANGED fetchVars

NextFilter ==
    \/ ApplyFilter
    \/ ApplySummarize

SpecFilter == InitFilter /\ [][NextFilter]_vars

-----------------------------------------------------------------------------
(* streamlit_ocr_test.py: the "Run Google OCR" handler                     *)

MaxRequests == 1

Str_Umbreon_VMAX == <<"U", "m", "b", "r", "e", "o", "n", " ", "V", "M", "A", "X">>
Str_Umbreon_V == <<"U", "m", "b", "r", "e", "o", "n", " ", "V">>
Str_Infernape == <<"I", "n", "f", "e", "r", "n", "a", "p", "e">>
Str_Pikachu == <<"P", "i", "k", "a", "c", "h", "u">>
Str_Eevee == <<"E", "e", "v", "e", "e">>
Str_Mew == <<"M", "e", "w">>
Str_Snorlax == <<"S", "n", "o", "r", "l", "a", "x">>
Str_Holofoil == <<"H", "o", "l", "o", "f", "o", "i", "l">>
Str_Reverse == <<"R", "e", "v", "e", "r", "s", "e">>
Str_Normal == <<"N", "o", "r", "m", "a", "l">>

\* three products share the printed number 095/203: two Umbreon, one unrelated
CatalogA ==
    [cards |-> << IngestedCard(3, 12, Str_Infernape, <<"0", "9", "5", "/", "2", "0", "3">>),
                  IngestedCard(2, 11, Str_Umbreon_V, <<"9", "5", "/", "2", "0", "3">>),
                  IngestedCard(1, 10, Str_Umbreon_VMAX, <<"0", "9", "5", "/", "2", "0", "3">>) >>,
     prices |-> << PriceRow(2, Str_Reverse, Price(7)), PriceRow(1, Str_Holofoil, Price(5)),
                   PriceRow(2, Str_Holofoil, Price(6)) >>]

\* promo cards: two products that tie on set, name and sub-variant; a code with a
\* single-zero suffix; a bare promo integer; and one ordinary slash number
CatalogB ==
    [cards |-> << IngestedCard(5, 20, Str_Pikachu, <<"S", "M", "0", "5">>),
                  IngestedCard(4, 20, Str_Pikachu, <<"S", "M", "0", "5">>),
                  IngestedCard(6, 20, Str_Eevee, <<"S", "M", "0">>),
                  IngestedCard(7, 21, Str_Mew, <<"2", "8">>),
                  IngestedCard(8, 22, Str_Snorlax, <<"0", "5", "9", "/", "1", "3", "1">>),
                  IngestedCard(9, 22, Str_Mew, <<"S", "W", "S", "H", "1", "2", "5">>) >>,
     prices |-> << PriceRow(4, Str_Normal, Price(3)), PriceRow(5, Str_Normal, Price(4)),
                   PriceRow(8, Str_Holofoil, Price(9)) >>]

\* the two Umbreon of CatalogA printed in one set, with one sub-variant each
CatalogC ==
    [cards |-> << IngestedCard(1, 10, Str_Umbreon_VMAX, <<"0", "9", "5", "/", "2", "0", "3">>),
                  IngestedCard(2, 10, Str_Umbreon_V, <<"0", "9", "5", "/", "2", "0", "3">>),
                  IngestedCard(3, 12, Str_Infernape, <<"9", "5", "/", "2", "0", "3">>) >>,
     prices |-> << PriceRow(1, Str_Holofoil, Price(5)), PriceRow(2, Str_Reverse, Price(7)),
                   PriceRow(3, Str_Normal, Price(2)) >>]

Catalogs == {CatalogA, CatalogB, CatalogC}

\* a printed identifier and the way the OCR engine renders it
Printed(id, ocr) == [id |-> id, ocr |-> ocr]
NoId == Printed(<<>>, <<>>)

NameLines == {<<>>, Str_Umbreon_VMAX}
SlashPrinted == {Printed(<<"0", "9", "5", "/", "2", "0", "3">>, <<"0", "9", "5", "/", "2", "0", "3">>), Printed(<<"0", "5", "9", "/", "1", "3", "1">>, <<"0", "5", "9", " ", "/", " ", "1", "3", "1">>)}
PromoPrinted == {Printed(<<"S", "M", "0", "5">>, <<"S", "M", "0", "5">>), Printed(<<"S", "M", "0">>, <<"S", "M", "0">>),
                 Printed(<<"S", "W", "S", "H", "1", "2", "5">>, <<"s", "w", "s", "h", "-", "1", "2", "5">>), Printed(<<"2", "8">>, <<"P", "R", "O", "M", "O", " ", "2", "8">>)}

\* what is on the photographed card: a name line, a slash number, a promo code,
\* and which of the two identifiers comes first in the text
CardFaces ==
    {[name |-> n, slash |-> sl, promo |-> pr, promoFirst |-> pf] :
        n \in NameLines, sl \in SlashPrinted \cup {NoId}, pr \in PromoPrinted \cup {NoId},
        pf \in BOOLEAN}

\* the text google_vision_ocr returns for a card face
TextOf(face) ==
    face.name \o <<"\n">> \o
    (IF face.promoFirst
     THEN face.promo.ocr \o <<"\n">> \o face.slash.ocr
     ELSE face.slash.ocr \o <<"\n">> \o face.promo.ocr)

\* lines 399-405: the tokens of the text and their lookup keys
TokenKeys(collector_raw, promo_raw, pokemon_name) ==
    [collector_raw |-> collector_raw,
     collector_norm |-> IF Truthy(collector_raw) THEN normalize_slash(collector_raw) ELSE None,
     promo_raw |-> promo_raw,
     promo_norm |-> IF Truthy(promo_raw) THEN normalize_promo(promo_raw) ELSE None,
     pokemon_name |-> pokemon_name]

Tokens(text) ==
    TokenKeys(parse_slash_number(text), parse_promo_number(text), extract_pokemon_name(text))

NoTokens ==
    [collector_raw |-> None, collector_norm |-> None, promo_raw |-> None,
     promo_norm |-> None, pokemon_name |-> None]

\* the locals of the handler and what it has put on the page, before it runs
NoRequest ==
    [n |-> 0, phase |-> "none", face |-> [name |-> <<>>, slash |-> NoId, promo |-> NoId, promoFirst |-> FALSE],
     text |-> None, tok |-> NoTokens, queried |-> FALSE, strategy |-> NoStrategy,
     candidates |-> <<>>, df |-> <<>>, applied_name_filter |-> FALSE,
     summary |-> summarize_variants(<<>>), sql |-> FALSE, raised |-> "none",
     labels |-> <<>>, parsed_shown |-> FALSE, error_shown |-> FALSE, saved_shown |-> FALSE]

\* save_run: one committed row of ocr_runs with the next run_id; created_at is
\* the time of the request, counted in requests; elapsed_ms is always stored
save_run(runs, status) ==
    Append(runs, [run_id |-> Len(runs) + 1, created_at |-> shown.n + 1, status |-> status,
                  error_message |-> IF status = "error" THEN "msg" ELSE "NULL"])

\* save_result: one committed row of ocr_results
save_result(results, run_id, p) ==
    Append(results,
        [run_id |-> run_id, full_text |-> p.text,
         collector_number_raw |-> p.tok.collector_raw, collector_number_norm |-> p.tok.collector_norm,
         promo_number_raw |-> p.tok.promo_raw, promo_number_norm |-> p.tok.promo_norm,
         pokemon_name |-> p.tok.pokemon_name, match_strategy |-> p.strategy,
         match_count |-> Len(p.df),
         variant_product_count |-> p.summary.variant_product_count,
         variant_subtype_count |-> p.summary.variant_subtype_count])

\* mutant: the error run is saved whether or not persistence is on
ExceptBranch_unguarded(runs, saveFails) ==
    IF dbExists /\ ~saveFails THEN save_run(runs, "error") ELSE runs

\* lines 497-506: "OCR failed" is shown and, with persistence on and the database
\* present, an error run is saved, unless that save fails too
ExceptBranch(runs, saveFails) ==
    IF persist /\ dbExists /\ ~saveFails THEN save_run(runs, "error") ELSE runs

CanRun == shown.n < MaxRequests /\ ~(persist /\ ~dbExists)

\* lines 390-392: persistence is on and the database file is missing
RunStopped ==
    /\ shown.n < MaxRequests
    /\ persist /\ ~dbExists
    /\ shown' = [NoRequest EXCEPT !.n = shown.n + 1, !.phase = "stopped", !.error_shown = TRUE]
    /\ UNCHANGED <<cards, prices_latest, dbExists, persist, ocr_runs, ocr_results>>
    /\ UNCHANGED normVars
    /\ UNCHANGED filterVars
    /\ UNCHANGED extractVars
    /\ UNCHANGED fetchVars
    /\ UNCHANGED refreshVars

\* line 396 raises
RunOcrRaises ==
    /\ CanRun
    /\ \E face \in CardFaces, saveFails \in BOOLEAN :
          /\ saveFails => (persist /\ dbExists)
          /\ shown' = [NoRequest EXCEPT !.n = shown.n + 1, !.phase = "failed", !.face = face,
                                        !.raised = "ocr", !.error_shown = TRUE]
          /\ ocr_runs' = ExceptBranch(ocr_runs, saveFails)
    /\ UNCHANGED <<cards, prices_latest, dbExists, persist, ocr_results>>
    /\ UNCHANGED normVars
    /\ UNCHANGED filterVars
    /\ UNCHANGED extractVars
    /\ UNCHANGED fetchVars
    /\ UNCHANGED refreshVars

\* the page and locals once lines 396-405 have run on the text of `face`
AfterExtraction(face) ==
    [NoRequest EXCEPT !.n = shown.n + 1, !.face = face, !.text = TextOf(face),
                      !.tok = Tokens(TextOf(face))]

\* the text of `face` holds a collector or a promo token
HasKey(face) ==
    Truthy(Tokens(TextOf(face)).collector_norm) \/ Truthy(Tokens(TextOf(face)).promo_norm)

\* get_conn of line 412 raises, or the read_sql_query of line 413 does, which is
\* called only with a key
RunQueryRaises ==
    /\ CanRun
    /\ dbExists
    /\ \E face \in CardFaces, saveFails \in BOOLEAN, inQuery \in BOOLEAN :
          /\ saveFails => persist
          /\ inQuery => HasKey(face)
          /\ shown' = [AfterExtraction(face) EXCEPT !.phase = "failed", !.error_shown = TRUE,
                           !.sql = inQuery, !.raised = IF inQuery THEN "query" ELSE "connect"]
          /\ ocr_runs' = ExceptBranch(ocr_runs, saveFails)
    /\ UNCHANGED <<cards, prices_latest, dbExists, persist, ocr_results>>
    /\ UNCHANGED normVars
    /\ UNCHANGED filterVars
    /\ UNCHANGED extractVars
    /\ UNCHANGED fetchVars
    /\ UNCHANGED refreshVars

\* read_sql_query of line 299: the market_price column of the frame is a float
\* column, with NaN for the nulls, when one row at least has a price, and a
\* column of objects, with None for the nulls, when no row has one
FloatColumn(df) == \E i \in DOMAIN df : df[i].market_price # NullPrice

Str_NA == <<"N", "/", "A">>
Str_nan == <<"$", "n", "a", "n">>
Str_Bar == <<" ", "|", " ">>

\* line 450: NaN is a float, so it is formatted; None is not, so it gives "N/A"
mp_s(mp, isFloat) ==
    IF mp = NullPrice
    THEN (IF isFloat THEN Str_nan ELSE Str_NA)
    ELSE <<"$">> \o IntToStr(mp.v) \o <<".", "0", "0">>

\* str() of a cell of a column of objects
CellText(v) == IF v = None THEN <<"N", "o", "n", "e">> ELSE v

\* lines 448-451
label_row(r, isFloat) ==
    r.product_name \o Str_Bar \o CellText(r.sub_type) \o Str_Bar \o mp_s(r.market_price, isFloat)
      \o Str_Bar \o <<"g", "r", "o", "u", "p", "_", "i", "d", "=">> \o IntToStr(r.group_id)
      \o Str_Bar \o <<"p", "r", "o", "d", "u", "c", "t", "_", "i", "d", "=">> \o IntToStr(r.product_id)

\* lines 453-455: the labels of the dropdown, one for each option
Labelled(m, isFloat) ==
    [m EXCEPT !.labels = [i \in DOMAIN m.summary.options_df |->
                              label_row(m.summary.options_df[i], isFloat)]]

\* lines 416-475 once the query of line 413 has returned the frame df0 of its
\* result q: f is what the name filter makes of df0
Matched(p, q, df0, f) ==
    Labelled([p EXCEPT !.queried = TRUE, !.strategy = q.strategy, !.sql = q.sql, !.candidates = df0,
                       !.df = f.df, !.applied_name_filter = f.applied,
                       !.summary = summarize_variants(f.df), !.parsed_shown = TRUE],
             FloatColumn(df0))

\* one outcome for each frame the query q may return
MatchedAll(p, q) ==
    {Matched(p, q, df0, filter_candidates_by_pokemon_name(df0, p.tok.pokemon_name)) :
        df0 \in q.dfs}

\* lines 407-475 after the extraction p: resolution, name filter, summary, and the
\* parsed output shown; line 411 skips the query without the database file
Resolved(p) ==
    IF dbExists
    THEN MatchedAll(p, query_candidates_by_number(cards, prices_latest,
                                                  p.tok.collector_norm, p.tok.promo_norm))
    ELSE {[p EXCEPT !.parsed_shown = TRUE]}

\* the ways lines 396-475 may end for the text of `face`
Outcomes(face) == Resolved(AfterExtraction(face))

\* the handler runs to its end: the run and its result are saved when persistence is on
RunSucceeds ==
    /\ CanRun
    /\ \E face \in CardFaces :
       \E p \in Outcomes(face) :
          /\ shown' = [p EXCEPT !.phase = "done", !.saved_shown = persist]
          /\ ocr_runs' = IF persist THEN save_run(ocr_runs, "success") ELSE ocr_runs
          /\ ocr_results' = IF persist THEN save_result(ocr_results, Len(ocr_runs) + 1, p)
                            ELSE ocr_results
    /\ UNCHANGED <<cards, prices_latest, dbExists, persist>>
    /\ UNCHANGED normVars
    /\ UNCHANGED filterVars
    /\ UNCHANGED extractVars
    /\ UNCHANGED fetchVars
    /\ UNCHANGED refreshVars

\* save_run of line 480 raises: nothing of the run is saved by the try block
RunSaveRunRaises ==
    /\ CanRun
    /\ persist
    /\ \E face \in CardFaces, saveFails \in BOOLEAN :
       \E p \in Outcomes(face) :
          /\ shown' = [p EXCEPT !.phase = "failed", !.raised = "save_run", !.error_shown = TRUE]
          /\ ocr_runs' = ExceptBranch(ocr_runs, saveFails)
    /\ UNCHANGED <<cards, prices_latest, dbExists, persist, ocr_results>>
    /\ UNCHANGED normVars
    /\ UNCHANGED filterVars
    /\ UNCHANGED extractVars
    /\ UNCHANGED fetchVars
    /\ UNCHANGED refreshVars

\* save_result of line 481 raises after save_run has committed the success run
RunSaveResultRaises ==
    /\ CanRun
    /\ persist
    /\ \E face \in CardFaces, saveFails \in BOOLEAN :
       \E p \in Outcomes(face) :
          /\ shown' = [p EXCEPT !.phase = "failed", !.raised = "save_result", !.error_shown = TRUE]
          /\ ocr_runs' = ExceptBranch(save_run(ocr_runs, "success"), saveFails)
    /\ UNCHANGED <<cards, prices_latest, dbExists, persist, ocr_results>>
    /\ UNCHANGED normVars
    /\ UNCHANGED filterVars
    /\ UNCHANGED extractVars
    /\ UNCHANGED fetchVars
    /\ UNCHANGED refreshVars

InitOcr ==
    /\ dbExists \in BOOLEAN
    /\ persist \in BOOLEAN
    /\ \E cat \in Catalogs :
          /\ cards = IF dbExists THEN cat.cards ELSE <<>>
          /\ prices_latest = IF dbExists THEN cat.prices ELSE <<>>
    /\ ocr_runs = <<>>
    /\ ocr_results = <<>>
    /\ shown = NoRequest
    /\ IdleNorm
    /\ IdleFilter
    /\ IdleRefresh

NextOcr ==
    \/ RunStopped
    \/ RunOcrRaises
    \/ RunQueryRaises
    \/ RunSucceeds
    \/ RunSaveRunRaises
    \/ RunSaveResultRaises

Spec == InitOcr /\ [][NextOcr]_vars

-----------------------------------------------------------------------------
(* scripts/refresh_prices_daily.py: main, run by one process or by two. A   *)
(* run logs its start in run_log and takes the groups of the cards table   *)
(* in turn; for each it fetches the price feed of the group and writes     *)
(* prices_latest and prices_history; it ends by logging its outcome.       *)
(* backfill_prices_archive.py loads days of the archive into               *)
(* prices_history. The table trends_latest is not part of the state.       *)

MaxRuns == 2
MaxDays == 2
MaxFeed == 2

Str_Unknown == <<"U", "n", "k", "n", "o", "w", "n">>

\* a JSON number or null of the feed
JsonNull == NullPrice
JsonNum(n) == Price(n)

\* one element of the "results" list of a price feed
RawPrice(pid, sub, mp) == [productId |-> pid, subTypeName |-> sub, marketPrice |-> mp]

\* two products, each alone in its group
RefreshCards ==
    << IngestedCard(1, 10, Str_Pikachu, <<"S", "M", "0", "5">>),
       IngestedCard(2, 11, Str_Eevee, <<"0", "5", "9", "/", "1", "3", "1">>) >>

\* the ascending sequence of a set of integers
RECURSIVE SortedSeq(_)
SortedSeq(S) ==
    IF S = {} THEN <<>>
    ELSE <<MinOf(S)>> \o SortedSeq(S \ {MinOf(S)})

\* SELECT DISTINCT group_id FROM cards ORDER BY group_id, or --only-group-id
get_group_ids_in_cards(cs, only_group_id) ==
    IF only_group_id # 0 THEN <<only_group_id>>
    ELSE SortedSeq({cs[i].group_id : i \in DOMAIN cs})

get_product_ids_for_group(cs, group_id) ==
    {cs[i].product_id : i \in {j \in DOMAIN cs : cs[j].group_id = group_id}}

\* what the feed of a group may hold for the product ids `own`: prices of two
\* labels, a price without label, a null price, a product the catalog does not
\* have, and an element without product id
FeedPool(own) ==
    UNION {{RawPrice(JsonNum(q), Str_Normal, Price(1)), RawPrice(JsonNum(q), Str_Normal, Price(2)),
            RawPrice(JsonNum(q), None, Price(2)), RawPrice(JsonNum(q), Str_Normal, NullPrice)} :
              q \in own}
      \cup {RawPrice(JsonNum(9), Str_Normal, Price(1)), RawPrice(JsonNull, Str_Normal, Price(1))}

Feeds(own) == UNION {[1..n -> FeedPool(own)] : n \in 0..MaxFeed}

\* lines 318-342: the element is kept
Kept(pr, valid_ids) ==
    /\ pr.productId # JsonNull
    /\ pr.productId.v \in valid_ids
    /\ pr.marketPrice # JsonNull

\* line 332: pr.get("subTypeName") or "Unknown"
SubTypeOf(pr) ==
    IF pr.subTypeName = None \/ pr.subTypeName = <<>> THEN Str_Unknown ELSE pr.subTypeName

\* lines 317-346: latest_rows, and hist_rows with the snapshot date
RECURSIVE LatestRows(_, _, _)
LatestRows(price_rows, valid_ids, captured_at) ==
    IF price_rows = <<>> THEN <<>>
    ELSE (IF Kept(price_rows[1], valid_ids)
          THEN <<[product_id |-> price_rows[1].productId.v, sub_type |-> SubTypeOf(price_rows[1]),
                  market_price |-> price_rows[1].marketPrice, updated_at |-> captured_at]>>
          ELSE <<>>)
         \o LatestRows(Tail(price_rows), valid_ids, captured_at)

HistRow(r, snapshot_date) ==
    [product_id |-> r.product_id, sub_type |-> r.sub_type, snapshot_date |-> snapshot_date,
     market_price |-> r.market_price, captured_at |-> r.updated_at]

SamePair(a, b) == a.product_id = b.product_id /\ a.sub_type = b.sub_type

\* mutant: a conflicting row is left as it is
UpsertOne_ignore(table, r) ==
    IF \E i \in DOMAIN table : SamePair(table[i], r) THEN table ELSE Append(table, r)

\* INSERT ... ON CONFLICT(product_id, sub_type) DO UPDATE SET market_price,
\* updated_at, for one row
UpsertOne(table, r) ==
    IF \E i \in DOMAIN table : SamePair(table[i], r)
    THEN [i \in DOMAIN table |->
             IF SamePair(table[i], r)
             THEN [table[i] EXCEPT !.market_price = r.market_price, !.updated_at = r.updated_at]
             ELSE table[i]]
    ELSE Append(table, r)

\* lines 133-149: executemany applies the rows in order
RECURSIVE upsert_prices_latest(_, _)
upsert_prices_latest(table, rows) ==
    IF rows = <<>> THEN table
    ELSE upsert_prices_latest(UpsertOne(table, rows[1]), Tail(rows))

\* mutant: INSERT OR REPLACE, the row of a loaded triple takes the new values
InsertOne_replace(table, r, snapshot_date) ==
    IF \E i \in DOMAIN table : SamePair(table[i], r) /\ table[i].snapshot_date = snapshot_date
    THEN [i \in DOMAIN table |->
             IF SamePair(table[i], r) /\ table[i].snapshot_date = snapshot_date
             THEN HistRow(r, snapshot_date)
             ELSE table[i]]
    ELSE Append(table, HistRow(r, snapshot_date))

\* lines 155-163: INSERT OR IGNORE INTO prices_history, for one row, under
\* PK(product_id, sub_type, snapshot_date)
InsertOne(table, r, snapshot_date) ==
    IF \E i \in DOMAIN table : SamePair(table[i], r) /\ table[i].snapshot_date = snapshot_date
    THEN table
    ELSE Append(table, HistRow(r, snapshot_date))

\* lines 152-166: executemany applies the rows in order
RECURSIVE insert_prices_history(_, _, _)
insert_prices_history(table, rows, snapshot_date) ==
    IF rows = <<>> THEN table
    ELSE insert_prices_history(InsertOne(table, rows[1], snapshot_date), Tail(rows),
                               snapshot_date)

\* the record of what the feeds have delivered, after the element pr of a feed
\* fetched by the run started at time `at`
Noted(d, pr, at) ==
    {x \in d : ~(x.product_id = pr.productId.v /\ x.sub_type = SubTypeOf(pr))}
      \cup {[product_id |-> pr.productId.v, sub_type |-> SubTypeOf(pr),
             market_price |-> pr.marketPrice, at |-> at]}

RECURSIVE NotedAll(_, _, _, _)
NotedAll(d, price_rows, valid_ids, at) ==
    IF price_rows = <<>> THEN d
    ELSE NotedAll(IF Kept(price_rows[1], valid_ids) THEN Noted(d, price_rows[1], at) ELSE d,
                  Tail(price_rows), valid_ids, at)

\* lines 77-87: the row of a run that starts, with the next run_id
insert_run_log_start(log, snapshot_date) ==
    Append(log, [run_id |-> Len(log) + 1, snapshot_date |-> snapshot_date,
                 status |-> "running", notes |-> 0])

\* lines 90-130: UPDATE run_log SET status, notes, ... WHERE run_id = ?
update_run_log_finish(log, run_id, status, notes) ==
    [i \in DOMAIN log |->
        IF log[i].run_id = run_id
        THEN [log[i] EXCEPT !.status = status, !.notes = notes]
        ELSE log[i]]

\* lines 386-390: UPDATE run_log SET status='failed', notes=? WHERE
\* status='running' AND job_name=? AND snapshot_date=?; the note is the error
\* text of the run `by`
MarkFailed(log, snapshot_date, by) ==
    [i \in DOMAIN log |->
        IF log[i].status = "running" /\ log[i].snapshot_date = snapshot_date
        THEN [log[i] EXCEPT !.status = "failed", !.notes = by]
        ELSE log[i]]

\* the note "No group_ids found in cards table. Ingest cards first."
NoGroupsNote == -1

\* lines 277-290: the run_log after the start of a run with the group ids `ids`
StartedLog(log, snapshot_date, ids) ==
    IF ids = <<>>
    THEN MarkFailed(update_run_log_finish(insert_run_log_start(log, snapshot_date),
                                          Len(log) + 1, "failed", NoGroupsNote),
                    snapshot_date, Len(log) + 1)
    ELSE insert_run_log_start(log, snapshot_date)

\* the locals of main once it has started, or has raised for want of group ids
StartedRun(run_id, captured_at, snapshot_date, ids) ==
    [phase |-> IF ids = <<>> THEN "idle" ELSE "running", run_id |-> run_id,
     captured_at |-> captured_at, snapshot_date |-> snapshot_date, todo |-> ids,
     exit |-> IF ids = <<>> THEN "raised" ELSE "none"]

\* lines 260-290: main starts in process p; without group ids it raises at once
RefreshStart ==
    /\ now < MaxRuns
    /\ now' = now + 1
    /\ \E p \in DOMAIN run, d \in 1..MaxDays, only \in {0, 10, 11, 12} :
          /\ run[p].phase = "idle"
          /\ run' = [run EXCEPT ![p] = StartedRun(Len(run_log) + 1, now + 1, d,
                                                  get_group_ids_in_cards(cards, only))]
          /\ run_log' = StartedLog(run_log, d, get_group_ids_in_cards(cards, only))
    /\ UNCHANGED <<prices_history, delivered>>
    /\ UNCHANGED ocrVars
    /\ UNCHANGED normVars
    /\ UNCHANGED filterVars
    /\ UNCHANGED extractVars
    /\ UNCHANGED fetchVars

\* lines 297-308: the group has no card, or fetching its feed fails
RefreshSkipsGroup ==
    /\ \E p \in DOMAIN run :
          /\ run[p].phase = "running"
          /\ run[p].todo # <<>>
          /\ run' = [run EXCEPT ![p].todo = Tail(run[p].todo)]
    /\ UNCHANGED <<now, run_log, prices_history, delivered>>
    /\ UNCHANGED ocrVars
    /\ UNCHANGED normVars
    /\ UNCHANGED filterVars
    /\ UNCHANGED extractVars
    /\ UNCHANGED fetchVars

\* lines 310-354 for the run r and the product ids valid_ids of its next group
GroupWritten(r, valid_ids) ==
    \E price_rows \in Feeds(valid_ids) :
       /\ prices_latest' =
             upsert_prices_latest(prices_latest, LatestRows(price_rows, valid_ids, r.captured_at))
       /\ prices_history' =
             insert_prices_history(prices_history,
                                   LatestRows(price_rows, valid_ids, r.captured_at),
                                   r.snapshot_date)
       /\ delivered' = NotedAll(delivered, price_rows, valid_ids, r.captured_at)

\* lines 297-358: the feed of the next group is fetched and written
RefreshGroup ==
    /\ \E p \in DOMAIN run :
          /\ run[p].phase = "running"
          /\ run[p].todo # <<>>
          /\ get_product_ids_for_group(cards, run[p].todo[1]) # {}
          /\ GroupWritten(run[p], get_product_ids_for_group(cards, run[p].todo[1]))
          /\ run' = [run EXCEPT ![p].todo = Tail(run[p].todo)]
    /\ UNCHANGED <<now, run_log, cards, dbExists, persist, ocr_runs, ocr_results, shown>>
    /\ UNCHANGED normVars
    /\ UNCHANGED filterVars
    /\ UNCHANGED extractVars
    /\ UNCHANGED fetchVars

\* lines 360-382: every group is done, the run is logged as a success and main
\* returns
RefreshFinishes ==
    /\ \E p \in DOMAIN run :
          /\ run[p].phase = "running"
          /\ run[p].todo = <<>>
          /\ run_log' = update_run_log_finish(run_log, run[p].run_id, "success", 0)
          /\ run' = [run EXCEPT ![p].phase = "idle", ![p].exit = "returned"]
    /\ UNCHANGED <<now, prices_history, delivered>>
    /\ UNCHANGED ocrVars
    /\ UNCHANGED normVars
    /\ UNCHANGED filterVars
    /\ UNCHANGED extractVars
    /\ UNCHANGED fetchVars

\* lines 384-398: a statement of the try block raises and main ends. The handler
\* marks the running rows of the job and snapshot date as failed; it is not
\* entered for a KeyboardInterrupt, and an error of its UPDATE is swallowed
RefreshRaises ==
    /\ \E p \in DOMAIN run, handled \in BOOLEAN :
          /\ run[p].phase = "running"
          /\ run_log' = IF handled
                        THEN MarkFailed(run_log, run[p].snapshot_date, run[p].run_id)
                        ELSE run_log
          /\ run' = [run EXCEPT ![p].phase = "idle", ![p].exit = "raised"]
    /\ UNCHANGED <<now, prices_history, delivered>>
    /\ UNCHANGED ocrVars
    /\ UNCHANGED normVars
    /\ UNCHANGED filterVars
    /\ UNCHANGED extractVars
    /\ UNCHANGED fetchVars

\* backfill_prices_archive.py, lines 120-125: a history row of the day exists
day_already_loaded(table, snapshot_date) ==
    \E i \in DOMAIN table : table[i].snapshot_date = snapshot_date

\* backfill_prices_archive.py, lines 136-147: INSERT OR IGNORE of the batch
insert_history_rows(table, rows, snapshot_date) ==
    insert_prices_history(table, rows, snapshot_date)

\* backfill_prices_archive.py, lines 128-133: the product ids of the cards
load_cards_product_ids(cs) == {cs[i].product_id : i \in DOMAIN cs}

\* backfill_prices_archive.py, lines 285-302 and 213-247: one day of the archive
\* is loaded, unless --skip-existing finds the day loaded
BackfillDay ==
    /\ now < MaxRuns
    /\ now' = now + 1
    /\ \E d \in 1..MaxDays, skip_existing \in BOOLEAN,
          recs \in Feeds(load_cards_product_ids(cards)) :
          prices_history' =
             IF skip_existing /\ day_already_loaded(prices_history, d)
             THEN prices_history
             ELSE insert_history_rows(prices_history,
                      LatestRows(recs, load_cards_product_ids(cards), now + 1), d)
    /\ UNCHANGED <<run, run_log, delivered>>
    /\ UNCHANGED ocrVars
    /\ UNCHANGED normVars
    /\ UNCHANGED filterVars
    /\ UNCHANGED extractVars
    /\ UNCHANGED fetchVars

\* one process runs main again and again
InitRefresh ==
    /\ etext = <<>>
    /\ eres = Unset
    /\ fetch = NoFetch
    /\ cards = RefreshCards
    /\ prices_latest = <<>>
    /\ dbExists = TRUE
    /\ persist = FALSE
    /\ ocr_runs = <<>>
    /\ ocr_results = <<>>
    /\ shown = NoRequest
    /\ now = 0
    /\ run = <<NoRun>>
    /\ run_log = <<>>
    /\ prices_history = <<>>
    /\ delivered = {}
    /\ IdleNorm
    /\ IdleFilter

NextRefresh ==
    \/ RefreshStart
    \/ RefreshSkipsGroup
    \/ RefreshGroup
    \/ RefreshFinishes
    \/ RefreshRaises
    \/ BackfillDay

SpecRefresh == InitRefresh /\ [][NextRefresh]_vars

\* two processes run main at overlapping times, on a catalog of one card or none
InitOverlap ==
    /\ etext = <<>>
    /\ eres = Unset
    /\ fetch = NoFetch
    /\ cards \in {<<RefreshCards[1]>>, <<>>}
    /\ prices_latest = <<>>
    /\ dbExists = TRUE
    /\ persist = FALSE
    /\ ocr_runs = <<>>
    /\ ocr_results = <<>>
    /\ shown = NoRequest
    /\ now = 0
    /\ run = <<NoRun, NoRun>>
    /\ run_log = <<>>
    /\ prices_history = <<>>
    /\ delivered = {}
    /\ IdleNorm
    /\ IdleFilter

SpecOverlap == InitOverlap /\ [][NextRefresh]_vars

-----------------------------------------------------------------------------
(* Properties of the variant disambiguator, checked under SpecFilter       *)

\* the name token is absent, empty or only whitespace
IsBlankToken(tok) == tok = None \/ \A i \in DOMAIN tok : IsSpace(tok[i])

\* the row's display name contains the token, letter case ignored
TokenIn(row, tok) ==
    /\ tok # None
    /\ row.product_name # None
    /\ Contains(Lower(row.product_name), Lower(tok))

\* C2: the name filter never empties a non-empty candidate set; when no row's
\* display name contains the token, it returns the original rows unchanged with
\* applied = false, and it returns a result in every case
C2_FilterNeverEmpties ==
    (fres.done /\ frows # <<>>) =>
        /\ fres.val.df # <<>>
        /\ (\A i \in DOMAIN frows : ~TokenIn(frows[i], fname)) =>
               (fres.val.df = frows /\ fres.val.applied = FALSE)

C2_Witness ==
    /\ fres.done
    /\ Len(frows) >= 2
    /\ ~IsBlankToken(fname)
    /\ \A i \in DOMAIN frows : ~TokenIn(frows[i], fname)
    /\ fres.val = [df |-> frows, applied |-> FALSE]

\* C3: when a name token was extracted and at least one row's display name contains
\* it, the filter returns exactly the rows whose display name contains it, in their
\* original relative order, with applied = true
C3_FilterKeepsExactlyMatches ==
    (fres.done /\ ~IsBlankToken(fname) /\ \E i \in DOMAIN frows : TokenIn(frows[i], fname)) =>
        /\ fres.val.df = SelectSeq(frows, LAMBDA r : TokenIn(r, fname))
        /\ fres.val.applied = TRUE

C3_Witness ==
    /\ fres.done
    /\ fres.val.applied = TRUE
    /\ Len(fres.val.df) = 2
    /\ Len(frows) = 3
    /\ fres.val.df[1] # fres.val.df[2]
    /\ \E i \in DOMAIN frows : frows[i].product_name # None /\ ~TokenIn(frows[i], fname)

\* C4: with no name token (absent, empty or only whitespace) or an empty candidate
\* set, the filter returns its input rows unchanged with applied = false
C4_FilterNoTokenOrNoRows ==
    (fres.done /\ (IsBlankToken(fname) \/ frows = <<>>)) =>
        fres.val = [df |-> frows, applied |-> FALSE]

C4_Witness ==
    /\ fres.done
    /\ fname = <<" ">>
    /\ \E i \in DOMAIN frows : TokenIn(frows[i], fname)
    /\ fres.val = [df |-> frows, applied |-> FALSE]

\* the (product id, sub-variant label) pairs of a frame
PairsOf(df) == {<<df[i].product_id, df[i].sub_type>> : i \in DOMAIN df}

\* C5: the options hold exactly one entry for each distinct (product id, sub-variant
\* label) pair of the rows, and none for a pair that does not occur
C5_OptionsOnePerPair ==
    fsum.done =>
        /\ PairsOf(fsum.val.options_df) = PairsOf(frows)
        /\ Len(fsum.val.options_df) = Cardinality(PairsOf(frows))

C5_Witness ==
    /\ fsum.done
    /\ Len(frows) = 3
    /\ PairsOf(fsum.val.options_df) = {<<1, Holo>>, <<1, Reverse>>, <<2, None>>}
    /\ Len(fsum.val.options_df) = 3

\* C6: the counts are the number of distinct product ids and of distinct sub-variant
\* labels of the rows, and has_variations holds iff one of them exceeds 1
C6_VariantCounts ==
    fsum.done =>
        LET pids == {frows[i].product_id : i \in DOMAIN frows}
            labels == {frows[i].sub_type : i \in DOMAIN frows} \ {None}
        IN  /\ fsum.val.variant_product_count = Cardinality(pids)
            /\ fsum.val.variant_subtype_count = Cardinality(labels)
            /\ fsum.val.has_variations = (Cardinality(pids) > 1 \/ Cardinality(labels) > 1)
            /\ frows = <<>> => /\ fsum.val.variant_product_count = 0
                               /\ fsum.val.variant_subtype_count = 0
                               /\ fsum.val.has_variations = FALSE

C6_Witness ==
    /\ fsum.done
    /\ Len(frows) = 2
    /\ frows[1].product_id = frows[2].product_id
    /\ frows[1].sub_type # frows[2].sub_type
    /\ fsum.val.variant_product_count = 1
    /\ fsum.val.variant_subtype_count = 2
    /\ fsum.val.has_variations = TRUE

-----------------------------------------------------------------------------
(* Properties of the normalizers, checked under SpecNorm                   *)

\* C7: norm_ext_number is idempotent: applied to its own result it returns that result
C7_NormExtIdempotent ==
    (nfn = "norm_ext_number" /\ Len(nouts) = 2) => nouts[2] = nouts[1]

\* the decimal rendering of a digit string without its leading zeros
Canonical(ds) == NatToStr(DigitsToInt(ds))

\* C8: a slash-form input "a/b", with any number of digits and any whitespace around
\* the integers and the slash, normalizes to the rendering of a without leading
\* zeros, "/", and the rendering of b without leading zeros
C8_SlashFormNormalized ==
    (nparts.kind = "slash" /\ nfn = "norm_ext_number" /\ Len(nouts) >= 1) =>
        nouts[1] = Canonical(nparts.a) \o <<"/">> \o Canonical(nparts.b)

\* the width the claim gives a zero-led suffix of n digits
ClampWidth(n) == IF n < 2 THEN 2 ELSE IF n > 4 THEN 4 ELSE n

-----------------------------------------------------------------------------
(* Properties of the handler, checked under Spec                           *)

\* the products whose cards row holds key in `column`
CardsWith(column, key) ==
    {cards[i].product_id : i \in {j \in DOMAIN cards : cards[j][column] = key}}

ProductsOf(df) == {df[i].product_id : i \in DOMAIN df}

\* the request got as far as extracting the tokens of a text
Extracted == shown.text # None

\* C1: resolution goes strictly by priority. Whenever the query has run, a present
\* collector key means the collector-number strategy and exactly the products
\* stored under that key, also with a promo key present and also when no row is
\* found; the promo strategy and the products under the promo key only without a
\* collector key; no strategy and no row without either key. A text that holds a
\* slash number never ends with the promo strategy.
C1_StrategyByPriority ==
    /\ shown.queried =>
          IF Truthy(shown.tok.collector_norm)
          THEN /\ shown.strategy = "collector_number_norm"
               /\ ProductsOf(shown.candidates)
                      = CardsWith("collector_number_norm", shown.tok.collector_norm)
          ELSE IF Truthy(shown.tok.promo_norm)
          THEN /\ shown.strategy = "ext_number_norm"
               /\ ProductsOf(shown.candidates) = CardsWith("ext_number_norm", shown.tok.promo_norm)
          ELSE shown.strategy = NoStrategy /\ shown.candidates = <<>>
    /\ (Extracted /\ shown.face.slash # NoId) =>
          /\ Truthy(shown.tok.collector_norm)
          /\ shown.strategy # "ext_number_norm"
          /\ shown.queried => shown.strategy = "collector_number_norm"

\* a text with a slash number and a promo code, the collector query finding no row
\* although a card is stored under the promo key
C1_Witness ==
    /\ shown.queried
    /\ shown.face.slash # NoId
    /\ shown.face.promo # NoId
    /\ Truthy(shown.tok.collector_norm)
    /\ Truthy(shown.tok.promo_norm)
    /\ shown.strategy = "collector_number_norm"
    /\ shown.candidates = <<>>
    /\ CardsWith("ext_number_norm", shown.tok.promo_norm) # {}

\* C10: the lookup key equals the ingestion key of the printed identifier. Once
\* the tokens of a text are extracted, the collector key of a printed slash number
\* is what normalize_collector_number stores for it, and the promo key of a printed
\* promo code or bare promo integer is what norm_ext_number stores for it.
C10_LookupKeyIsIngestionKey ==
    Extracted =>
       /\ shown.face.slash # NoId =>
             shown.tok.collector_norm = normalize_collector_number(shown.face.slash.id)
       /\ shown.face.promo # NoId =>
             shown.tok.promo_norm = norm_ext_number(shown.face.promo.id)

Key_95_203 == <<"9", "5", "/", "2", "0", "3">>
Str_Umbreon == <<"U", "m", "b", "r", "e", "o", "n">>

\* the cards stored under 95/203, and those of them named Umbreon
SharedNumber == {j \in DOMAIN cards : cards[j].collector_number_norm = Key_95_203}
UmbreonCards == {j \in SharedNumber : Contains(cards[j].product_name, Str_Umbreon)}

\* the request of the end-to-end example: the name line "Umbreon VMAX" and the
\* number 095/203, resolved against three products that share the number, two of
\* them Umbreon
UmbreonRequest ==
    /\ shown.queried
    /\ shown.face.name = Str_Umbreon_VMAX
    /\ shown.face.slash.id = <<"0", "9", "5", "/", "2", "0", "3">>
    /\ Cardinality({cards[j].product_id : j \in SharedNumber}) = 3
    /\ Cardinality({cards[j].product_id : j \in UmbreonCards}) = 2

\* the (product id, sub-variant label) pairs the left join holds for card j
JoinPairs(j) ==
    IF \E k \in DOMAIN prices_latest : prices_latest[k].product_id = cards[j].product_id
    THEN {<<cards[j].product_id, prices_latest[k].sub_type>> :
             k \in {l \in DOMAIN prices_latest : prices_latest[l].product_id = cards[j].product_id}}
    ELSE {<<cards[j].product_id, None>>}

\* the options are exactly those of the two Umbreon products, one per pair, and
\* the name filter is reported as applied
UmbreonOptions ==
    /\ shown.applied_name_filter
    /\ PairsOf(shown.summary.options_df) = UNION {JoinPairs(j) : j \in UmbreonCards}
    /\ Len(shown.summary.options_df) = Cardinality(PairsOf(shown.summary.options_df))

\* row r comes before row q by set and then sub-variant label alone
SetSubLess(r, q) ==
    \/ r.group_id < q.group_id
    \/ r.group_id = q.group_id /\ ValLess(r.sub_type, q.sub_type, FALSE, StrLess)

\* C11 as stated: in the end-to-end example the options are those of the two
\* Umbreon products, the filter is applied, and the options are ordered by set and
\* then sub-variant label
C11_OrderedBySetThenSubType ==
    UmbreonRequest =>
       /\ UmbreonOptions
       /\ \A i \in 1..(Len(shown.summary.options_df) - 1) :
             ~SetSubLess(shown.summary.options_df[i + 1], shown.summary.options_df[i])

\* C11, amended: in the end-to-end example the options are those of the two Umbreon
\* products, the unrelated product is absent, the filter is applied, and the
\* options are ordered by set, then display name, then sub-variant label
C11_UmbreonEndToEnd ==
    UmbreonRequest =>
       /\ UmbreonOptions
       /\ \A i \in 1..(Len(shown.summary.options_df) - 1) :
             ~RowLess(shown.summary.options_df[i + 1], shown.summary.options_df[i], FALSE)

\* the example run with three options of the two Umbreon products in two sets
C11_Witness ==
    /\ UmbreonRequest
    /\ shown.phase = "done"
    /\ Len(shown.candidates) = 4
    /\ Len(shown.summary.options_df) = 3
    /\ ProductsOf(shown.summary.options_df) = {1, 2}

\* the text was obtained and holds neither a collector nor a promo token
NoTokenText ==
    /\ Extracted
    /\ ~Truthy(shown.tok.collector_norm)
    /\ ~Truthy(shown.tok.promo_norm)

\* the last row of a table
Last(rows) == rows[Len(rows)]

\* C12: a text without collector and promo token is not an error. No query is
\* issued, the strategy is none, the candidate set is empty, both variant counts
\* are 0 and has_variations is false; unless a collaborator raises, the request
\* ends normally and, with persistence on, its run is recorded with status
\* "success" together with a result row of no strategy and no match.
C12_NoTokensIsNormal ==
    NoTokenText =>
       /\ ~shown.sql
       /\ shown.raised # "query"
       /\ shown.strategy = NoStrategy
       /\ shown.candidates = <<>>
       /\ shown.df = <<>>
       /\ shown.summary.variant_product_count = 0
       /\ shown.summary.variant_subtype_count = 0
       /\ ~shown.summary.has_variations
       /\ shown.raised = "none" =>
             /\ shown.phase = "done"
             /\ shown.parsed_shown
             /\ ~shown.error_shown
             /\ persist =>
                   /\ ocr_runs # <<>>
                   /\ Last(ocr_runs).status = "success"
                   /\ ocr_results # <<>>
                   /\ Last(ocr_results).run_id = Last(ocr_runs).run_id
                   /\ Last(ocr_results).match_strategy = NoStrategy
                   /\ Last(ocr_results).match_count = 0

\* a text with a name line only, run against a stocked catalog with persistence on
C12_Witness ==
    /\ NoTokenText
    /\ shown.tok.pokemon_name # None
    /\ shown.phase = "done"
    /\ dbExists
    /\ cards # <<>>
    /\ persist
    /\ Len(ocr_runs) = 1
    /\ ocr_runs[1].status = "success"
    /\ Len(ocr_results) = 1

\* the rows the last request has added to a table of runs or results
RunsOfRequest == {i \in DOMAIN ocr_runs : ocr_runs[i].created_at = shown.n}
ResultsOfRequest ==
    {j \in DOMAIN ocr_results : \E i \in RunsOfRequest : ocr_results[j].run_id = ocr_runs[i].run_id}

\* the elapsed time is on the page (in the parsed output) or in a run row
ElapsedReported == shown.parsed_shown \/ RunsOfRequest # {}

\* the text and its tokens are on the page or in a result row
TextReported ==
    \/ shown.parsed_shown
    \/ \E j \in ResultsOfRequest :
          /\ ocr_results[j].full_text = shown.text
          /\ ocr_results[j].collector_number_norm = shown.tok.collector_norm
          /\ ocr_results[j].promo_number_norm = shown.tok.promo_norm

\* C13: a request in which the OCR engine or the catalog store raised is reported
\* as an error together with the elapsed time, and a text obtained before the
\* failure is still reported or recorded with its tokens
C13_FailureKeepsPartialState ==
    shown.raised \in {"ocr", "connect", "query"} =>
       /\ shown.error_shown
       /\ ElapsedReported
       /\ Extracted => TextReported

\* C14: a request whose save_run or save_result raised keeps the outcome it had
\* computed and shown, is not reported as "OCR failed", and leaves no run with
\* status "error"
C14_SaveFailureIsHarmless ==
    shown.raised \in {"save_run", "save_result"} =>
       /\ shown.parsed_shown
       /\ ~shown.error_shown
       /\ shown.phase # "failed"
       /\ \A i \in RunsOfRequest : ocr_runs[i].status # "error"

\* the result rows of the run row i
ResultsOfRun(i) == {j \in DOMAIN ocr_results : ocr_results[j].run_id = ocr_runs[i].run_id}

\* C24: with persistence on and the store present, the last request has added
\* one row to ocr_runs and no more (none only when a statement of the request
\* raised and the row could not be saved); every run row with status "success"
\* has exactly one result row with its run_id, and no run row with status
\* "error" has one
C24_OneRunRowPerRequest ==
    /\ (persist /\ dbExists /\ shown.n > 0) =>
          /\ Cardinality(RunsOfRequest) <= 1
          /\ shown.raised = "none" => Cardinality(RunsOfRequest) = 1
    /\ \A i \in DOMAIN ocr_runs :
          /\ ocr_runs[i].status = "success" => Cardinality(ResultsOfRun(i)) = 1
          /\ ocr_runs[i].status = "error" => ResultsOfRun(i) = {}

\* the label the five fields of an option give, with "N/A" for a null price
LabelOfFields(name, sub, price, gid, pid) ==
    name \o Str_Bar \o CellText(sub) \o Str_Bar
      \o (IF price = NullPrice THEN Str_NA ELSE <<"$">> \o IntToStr(price.v) \o <<".", "0", "0">>)
      \o Str_Bar \o <<"g", "r", "o", "u", "p", "_", "i", "d", "=">> \o IntToStr(gid)
      \o Str_Bar \o <<"p", "r", "o", "d", "u", "c", "t", "_", "i", "d", "=">> \o IntToStr(pid)

\* C15: the label of every option shown is the one its display name, sub-variant
\* label, price, set id and product id give, and its price field is "N/A"
\* exactly when the option has no price
C15_LabelFromOptionFields ==
    /\ Len(shown.labels) = Len(shown.summary.options_df)
    /\ \A i \in DOMAIN shown.labels :
          shown.labels[i] = LabelOfFields(shown.summary.options_df[i].product_name,
                                          shown.summary.options_df[i].sub_type,
                                          shown.summary.options_df[i].market_price,
                                          shown.summary.options_df[i].group_id,
                                          shown.summary.options_df[i].product_id)

\* the sequence df is ascending on (group_id, product_name, sub_type)
Ascending(df, nullsFirst) ==
    \A i \in 1..(Len(df) - 1) : ~RowLess(df[i + 1], df[i], nullsFirst)

\* C16: the rows and the options of a request are the same for every order in
\* which the store may hold the same card and price rows, products that tie on
\* set, display name and sub-variant label included, and they are ordered by set
\* id, display name and sub-variant label
C16_OrderIndependentOfStorage ==
    (shown.queried /\ shown.raised = "none") =>
       /\ Ascending(shown.candidates, TRUE)
       /\ Ascending(shown.summary.options_df, FALSE)
       /\ \A p \in Outcomes(shown.face) :
             /\ p.candidates = shown.candidates
             /\ p.summary.options_df = shown.summary.options_df

\* the column and the key of the query the request has made
QueryColumn ==
    IF shown.strategy = "collector_number_norm" THEN "collector_number_norm" ELSE "ext_number_norm"
QueryKey ==
    IF shown.strategy = "collector_number_norm" THEN shown.tok.collector_norm ELSE shown.tok.promo_norm

\* the rows of the result that belong to the card cards[j], and its price rows
RowsOfCard(j) ==
    {i \in DOMAIN shown.candidates : shown.candidates[i].product_id = cards[j].product_id}
PricesOfCard(j) ==
    {k \in DOMAIN prices_latest : prices_latest[k].product_id = cards[j].product_id}

\* C17: the result of the query holds, for every card stored under the lookup key,
\* one row per price row of the card carrying its sub-variant and price, or a
\* single row with null sub-variant and null price when the card has no price
\* row; it holds no row of a card stored under another key
C17_LeftJoinComplete ==
    (shown.queried /\ shown.strategy # NoStrategy) =>
       /\ \A i \in DOMAIN shown.candidates :
             \E j \in DOMAIN cards : shown.candidates[i].product_id = cards[j].product_id
       /\ \A j \in DOMAIN cards :
             IF cards[j][QueryColumn] # QueryKey
             THEN RowsOfCard(j) = {}
             ELSE IF PricesOfCard(j) = {}
             THEN /\ Cardinality(RowsOfCard(j)) = 1
                  /\ \A i \in RowsOfCard(j) :
                        /\ shown.candidates[i].sub_type = None
                        /\ shown.candidates[i].market_price = NullPrice
             ELSE /\ Cardinality(RowsOfCard(j)) = Cardinality(PricesOfCard(j))
                  /\ \A k \in PricesOfCard(j) : \E i \in RowsOfCard(j) :
                        /\ shown.candidates[i].sub_type = prices_latest[k].sub_type
                        /\ shown.candidates[i].market_price = prices_latest[k].market_price
                        /\ shown.candidates[i].group_id = cards[j].group_id
                        /\ shown.candidates[i].product_name = cards[j].product_name

\* a result with a card of two price rows and a card without price row
C17_Witness ==
    /\ shown.queried /\ shown.strategy # NoStrategy
    /\ \E j \in DOMAIN cards :
          cards[j][QueryColumn] = QueryKey /\ Cardinality(PricesOfCard(j)) = 2
                                           /\ Cardinality(RowsOfCard(j)) = 2
    /\ \E j \in DOMAIN cards :
          cards[j][QueryColumn] = QueryKey /\ PricesOfCard(j) = {} /\ Cardinality(RowsOfCard(j)) = 1

-----------------------------------------------------------------------------
(* Inputs of the token extractors                                          *)

MaxTextLen == 6

\* a digit, the slash, the three kinds of whitespace, and a letter
TextChars == {"1", "/", " ", "\t", "\n", "a"}

InitExtract ==
    /\ etext \in StrsUpTo(TextChars, MaxTextLen)
    /\ eres = Unset
    /\ fetch = NoFetch
    /\ now = 0
    /\ run = <<NoRun>>
    /\ run_log = <<>>
    /\ prices_history = <<>>
    /\ delivered = {}
    /\ IdleNorm
    /\ IdleFilter
    /\ IdleOcr

ApplyParseSlash ==
    /\ ~eres.done
    /\ eres' = Done(parse_slash_number(etext))
    /\ UNCHANGED etext
    /\ UNCHANGED fetchVars
    /\ UNCHANGED normVars
    /\ UNCHANGED filterVars
    /\ UNCHANGED ocrVars
    /\ UNCHANGED refreshVars

NextExtract == ApplyParseSlash

SpecExtract == InitExtract /\ [][NextExtract]_vars

\* everything but the text of an extractor is as after construction
IdleButText ==
    /\ eres = Unset
    /\ fetch = NoFetch
    /\ now = 0
    /\ run = <<NoRun>>
    /\ run_log = <<>>
    /\ prices_history = <<>>
    /\ delivered = {}
    /\ IdleNorm
    /\ IdleFilter
    /\ IdleOcr

MaxPromoPieces == 5

\* the pieces a text with promo codes is made of: two prefixes in either case,
\* the word PROMO alone and with an integer, digits, separators and a letter
PromoPieces ==
    { <<"S", "M">>, <<"x", "y">>, <<"P", "R", "O", "M", "O">>,
      <<"p", "r", "o", "m", "o", " ", "2", "8">>, <<"1">>, <<"0", "5">>,
      <<" ">>, <<"-">>, <<"x">> }

\* the pieces of ps one after the other
RECURSIVE Concat(_)
Concat(ps) == IF ps = <<>> THEN <<>> ELSE ps[1] \o Concat(Tail(ps))

PromoTexts == {Concat(ps) : ps \in StrsUpTo(PromoPieces, MaxPromoPieces)}

InitPromo ==
    /\ etext \in PromoTexts
    /\ IdleButText

ApplyParsePromo ==
    /\ ~eres.done
    /\ eres' = Done(parse_promo_number(etext))
    /\ UNCHANGED etext
    /\ UNCHANGED fetchVars
    /\ UNCHANGED normVars
    /\ UNCHANGED filterVars
    /\ UNCHANGED ocrVars
    /\ UNCHANGED refreshVars

NextPromo == ApplyParsePromo

SpecPromo == InitPromo /\ [][NextPromo]_vars

MaxNameLines == 3

\* lines as they stand on a card: names with and without suffix, a name of 3
\* and one of 2 letters after a stopword, names of 30 and 31 letters,
\* boilerplate, a stopword alone, a line with fewer than 4 letters, blank lines
NameLinePool ==
    { Str_Umbreon_VMAX,
      <<"P", "i", "c", "h", "u", " ", "&", " ", "E", "e", "v", "e", "e", "-", "G", "X", " ", "g", "x">>,
      <<"S", "T", "A", "G", "E", " ", "M", "e", "w", "!">>,
      <<"B", "a", "s", "i", "c", " ", "a", "b">>,
      [i \in 1..30 |-> "a"], [i \in 1..31 |-> "a"],
      <<"W", "e", "a", "k", "n", "e", "s", "s", " ", "M", "e", "w", "t", "w", "o">>,
      <<"B", "A", "S", "I", "C">>, <<"H", "P", " ", "1", "2", "0">>, <<" ", "\t">>, <<>> }

\* how many lines without a name stand before the others
FillerCounts == {0, CandidateLines - 1, CandidateLines}

RECURSIVE FillerLines(_)
FillerLines(n) == IF n = 0 THEN <<>> ELSE <<"H", "P", "\n">> \o FillerLines(n - 1)

\* the lines of ls, each ended by a line break
RECURSIVE JoinLines(_)
JoinLines(ls) == IF ls = <<>> THEN <<>> ELSE ls[1] \o <<"\n">> \o JoinLines(Tail(ls))

NameTexts ==
    {FillerLines(n) \o JoinLines(ls) : n \in FillerCounts, ls \in StrsUpTo(NameLinePool, MaxNameLines)}

InitName ==
    /\ etext \in NameTexts
    /\ IdleButText

ApplyExtractName ==
    /\ ~eres.done
    /\ eres' = Done(extract_pokemon_name(etext))
    /\ UNCHANGED etext
    /\ UNCHANGED fetchVars
    /\ UNCHANGED normVars
    /\ UNCHANGED filterVars
    /\ UNCHANGED ocrVars
    /\ UNCHANGED refreshVars

NextName == ApplyExtractName

SpecName == InitName /\ [][NextName]_vars

------------------------------------------------------------------------------
(* scripts/ingest_products.py and scripts/refresh_prices_daily.py:         *)
(* get_results, the same function in both files. fetch.log holds the       *)
(* responses of the attempts made so far, in order.                        *)

MaxRetries == 3

\* what session.get met: an exception it raised, or the status and the body of
\* the response; the body is not JSON, a JSON array, or a JSON object whose
\* "results" is absent, a string or a list
Response(raises, status, json, results, items) ==
    [raises |-> raises, status |-> status, json |-> json, results |-> results, items |-> items]

Responses ==
    { Response("ConnectionError", 0, "none", "absent", <<>>),
      Response("KeyboardInterrupt", 0, "none", "absent", <<>>),
      Response("none", 500, "invalid", "absent", <<>>),
      Response("none", 200, "invalid", "absent", <<>>),
      Response("none", 200, "array", "absent", <<>>),
      Response("none", 200, "object", "absent", <<>>),
      Response("none", 200, "object", "string", <<>>),
      Response("none", 200, "object", "list", <<>>),
      Response("none", 200, "object", "list", <<1>>) }

\* mutant: whatever "results" holds is returned
AttemptError_any_results(resp) ==
    IF resp.raises # "none" THEN resp.raises
    ELSE IF resp.status >= 400 THEN "HTTPError"
    ELSE IF resp.json = "invalid" THEN "JSONDecodeError"
    ELSE IF resp.json = "array" THEN "AttributeError"
    ELSE "None"

\* lines 42-47: the class of the exception the body of the try raises for the
\* response, "None" when it reaches the return
AttemptError(resp) ==
    IF resp.raises # "none" THEN resp.raises
    ELSE IF resp.status >= 400 THEN "HTTPError"
    ELSE IF resp.json = "invalid" THEN "JSONDecodeError"
    ELSE IF resp.json = "array" THEN "AttributeError"
    ELSE IF resp.results # "list" THEN "ValueError"
    ELSE "None"

\* an exception of the class, raised in the given attempt
Err(class, attempt) == [class |-> class, attempt |-> attempt]

\* get_results returned the list, or raised the exception
Returned(items) == [kind |-> "list", items |-> items, err |-> NoErr]
Raised(e) == [kind |-> "error", items |-> <<>>, err |-> e]

\* lines 41-51: one pass of the loop body, for the attempt that met resp.
\* `except Exception` does not catch a KeyboardInterrupt
AfterAttempt(f, resp, err) ==
    IF err = "None"
    THEN [f EXCEPT !.pc = "returned", !.result = Returned(resp.items),
                   !.log = Append(f.log, resp)]
    ELSE IF err = "KeyboardInterrupt"
    THEN [f EXCEPT !.pc = "raised", !.result = Raised(Err(err, Len(f.log) + 1)),
                   !.log = Append(f.log, resp)]
    ELSE [f EXCEPT !.last_err = Err(err, Len(f.log) + 1), !.log = Append(f.log, resp)]

\* lines 40-51: range(1, retries + 1) yields the next attempt
GetResultsAttempt ==
    /\ fetch.pc = "loop"
    /\ Len(fetch.log) < fetch.retries
    /\ \E resp \in Responses : fetch' = AfterAttempt(fetch, resp, AttemptError(resp))
    /\ UNCHANGED extractVars
    /\ UNCHANGED normVars
    /\ UNCHANGED filterVars
    /\ UNCHANGED ocrVars
    /\ UNCHANGED refreshVars

\* line 52: the range is exhausted, `raise last_err`; raising None is a
\* TypeError
GetResultsRaises ==
    /\ fetch.pc = "loop"
    /\ Len(fetch.log) >= fetch.retries
    /\ fetch' = [fetch EXCEPT !.pc = "raised",
                              !.result = IF fetch.last_err = NoErr
                                         THEN Raised(Err("TypeError", 0))
                                         ELSE Raised(fetch.last_err)]
    /\ UNCHANGED extractVars
    /\ UNCHANGED normVars
    /\ UNCHANGED filterVars
    /\ UNCHANGED ocrVars
    /\ UNCHANGED refreshVars

\* get_results has been called with some number of retries
InitFetch ==
    /\ \E retries \in 0..MaxRetries : fetch = [NoFetch EXCEPT !.pc = "loop", !.retries = retries]
    /\ etext = <<>>
    /\ eres = Unset
    /\ now = 0
    /\ run = <<NoRun>>
    /\ run_log = <<>>
    /\ prices_history = <<>>
    /\ delivered = {}
    /\ IdleNorm
    /\ IdleFilter
    /\ IdleOcr

NextFetch ==
    \/ GetResultsAttempt
    \/ GetResultsRaises

\* the interpreter runs the loop on; every session.get ends, by its timeout at
\* the latest
SpecFetch == InitFetch /\ [][NextFetch]_vars /\ WF_vars(NextFetch)

-----------------------------------------------------------------------------
(* Properties of the price refresh, checked under SpecRefresh              *)

SameTriple(a, b) == SamePair(a, b) /\ a.snapshot_date = b.snapshot_date

\* C23: writing price history is idempotent per day. A step of the daily refresh
\* or of the archive backfill keeps every row prices_history holds, in its place
\* and with its price and timestamp, and the table never holds two rows of one
\* (product id, sub-variant label, snapshot date) triple: the first row inserted
\* for a triple stays, a later insert for it changes nothing
C23_HistoryIdempotentPerDay ==
    [][/\ Len(prices_history') >= Len(prices_history)
       /\ \A i \in DOMAIN prices_history : prices_history'[i] = prices_history[i]
       /\ \A i, j \in DOMAIN prices_history' :
             SameTriple(prices_history'[i], prices_history'[j]) => i = j]_vars

\* a second run, for the snapshot date of a row the first writer inserted, has
\* fetched another price for the pair of the row, and the row is as it was
C23_Witness ==
    \E h \in DOMAIN prices_history, i \in DOMAIN prices_latest, p \in DOMAIN run :
       /\ SamePair(prices_latest[i], prices_history[h])
       /\ prices_history[h].captured_at = 1
       /\ prices_latest[i].updated_at = 2
       /\ prices_latest[i].market_price # prices_history[h].market_price
       /\ run[p].captured_at = 2
       /\ run[p].snapshot_date = prices_history[h].snapshot_date

\* the run_log rows of the run with the given run_id
RowsOfRun(run_id) == {i \in DOMAIN run_log : run_log[i].run_id = run_id}

\* C25: while a run is under way its run_log row has status "running" and no
\* note, whatever has become of the runs that overlap it: the failure of another
\* run for the same snapshot date leaves the row alone
C25_FailureTouchesOwnRowOnly ==
    \A p \in DOMAIN run :
       run[p].phase = "running" =>
          \A i \in RowsOfRun(run[p].run_id) :
             run_log[i].status = "running" /\ run_log[i].notes = 0

\* C26: once main has exited, the run_log row the run had inserted is terminal:
\* "success" when main returned, "failed" when it exited through an exception
C26_ExitedRunIsTerminal ==
    \A p \in DOMAIN run :
       (run[p].phase = "idle" /\ run[p].run_id # 0) =>
          /\ RowsOfRun(run[p].run_id) # {}
          /\ \A i \in RowsOfRun(run[p].run_id) :
                run_log[i].status = IF run[p].exit = "returned" THEN "success" ELSE "failed"

-----------------------------------------------------------------------------
(* Properties of the token extractors, checked under SpecExtract           *)

\* s[i..j-1] is a run of 1 to 4 digits; is whitespace only
DigitRun(s, i, j) == (j - i) \in 1..4 /\ \A k \in i..(j - 1) : IsDigit(s[k])
BlankRun(s, i, j) == \A k \in i..(j - 1) : IsSpace(s[k])

\* s[i..d-1] is a number, a slash and a number, with optional whitespace around
\* the slash, and stands between word boundaries
SlashSpan(s, i, d) ==
    /\ Boundary(s, i) /\ Boundary(s, d)
    /\ \E a \in (i + 1)..d, b \in (i + 1)..d, c \in (i + 1)..d :
          /\ a <= b /\ b < c /\ c < d
          /\ DigitRun(s, i, a) /\ BlankRun(s, a, b) /\ s[b] = "/"
          /\ BlankRun(s, b + 1, c) /\ DigitRun(s, c, d)

SlashSpans(s) == {sp \in (1..Len(s)) \X (1..(Len(s) + 1)) : SlashSpan(s, sp[1], sp[2])}

LeftmostSpan(S) == CHOOSE sp \in S : \A other \in S : sp[1] <= other[1]

\* C20: parse_slash_number returns nothing for a text without slash number, and
\* otherwise the leftmost one with every whitespace character taken out
C20_SlashTokenWithoutWhitespace ==
    eres.done =>
       IF SlashSpans(etext) = {}
       THEN eres.val = None
       ELSE /\ eres.val # None
            /\ \A k \in DOMAIN eres.val : ~IsSpace(eres.val[k])
            /\ eres.val = Without(SubSeq(etext, LeftmostSpan(SlashSpans(etext))[1],
                                       LeftmostSpan(SlashSpans(etext))[2] - 1), IsSpace)

-----------------------------------------------------------------------------
(* The writes of the handler, checked under Spec                           *)

\* C18: no step of a request changes a row of cards, prices_latest or
\* prices_history, and with persistence off no step changes ocr_runs or
\* ocr_results either
C18_CatalogNeverWritten ==
    [][/\ cards' = cards
       /\ prices_latest' = prices_latest
       /\ prices_history' = prices_history
       /\ ~persist => (ocr_runs' = ocr_runs /\ ocr_results' = ocr_results)]_vars

\* a request has failed after its query, with persistence off and a catalog present
C18_Witness ==
    /\ ~persist
    /\ cards # <<>>
    /\ shown.phase = "failed"
    /\ shown.raised = "query"

-----------------------------------------------------------------------------
(* Properties of parse_promo_number, checked under SpecPromo               *)

\* s[a..c-1] is whitespace with at most one hyphen in it
PromoGap(s, a, c) ==
    \E h \in a..c : BlankRun(s, a, h) /\ (h = c \/ (s[h] = "-" /\ BlankRun(s, h + 1, c)))

\* the digits s[c..d-1] end a promo code whose prefix ends before position a
PromoDigits(s, a, c, d) == PromoGap(s, a, c) /\ DigitRun(s, c, d) /\ Boundary(s, d)

\* a known prefix stands at position i of s, after a word boundary, and 1 to 4
\* digits follow it
PrefixCodeAt(s, i) ==
    /\ Boundary(s, i)
    /\ \E k \in DOMAIN PromoPrefixList :
          /\ HasWordAt(s, i, PromoPrefixList[k])
          /\ \E c \in (i + Len(PromoPrefixList[k]))..Len(s) : \E d \in (c + 1)..(Len(s) + 1) :
                PromoDigits(s, i + Len(PromoPrefixList[k]), c, d)

\* upper-cased prefix and digits of the code at position i
CodeOfPrefix(s, i, k) ==
    LET a == i + Len(PromoPrefixList[k])
        c == CHOOSE x \in a..Len(s) : \E d \in (x + 1)..(Len(s) + 1) : PromoDigits(s, a, x, d)
        d == CHOOSE y \in (c + 1)..(Len(s) + 1) : PromoDigits(s, a, c, y)
    IN  PromoPrefixList[k] \o SubSeq(s, c, d - 1)

CodeAt(s, i) ==
    CodeOfPrefix(s, i, CHOOSE k \in DOMAIN PromoPrefixList : HasWordAt(s, i, PromoPrefixList[k]))

\* a number of 1 to 3 digits stands alone at position j
BareNumberAt(s, j) ==
    /\ Boundary(s, j)
    /\ \E d \in (j + 1)..(Len(s) + 1) :
          (d - j) <= 3 /\ DigitRun(s, j, d) /\ Boundary(s, d)

\* the word PROMO stands alone at position i, and a bare number follows it
\* within the window
PromoWordAt(s, i) ==
    /\ Boundary(s, i) /\ HasWordAt(s, i, <<"P", "R", "O", "M", "O">>) /\ Boundary(s, i + 5)
    /\ \E j \in (i + 5)..Len(s) : (j - (i + 5)) <= PromoWindow /\ BareNumberAt(s, j)

\* str(int()) of the bare number nearest after the word PROMO at position i
BareIntegerAfter(s, i) ==
    LET j == MinOf({x \in (i + 5)..Len(s) : BareNumberAt(s, x)})
        d == CHOOSE y \in (j + 1)..(Len(s) + 1) : DigitRun(s, j, y) /\ Boundary(s, y)
    IN  NatToStr(DigitsToInt(SubSeq(s, j, d - 1)))

PrefixCodes(s) == {i \in DOMAIN s : PrefixCodeAt(s, i)}
PromoWords(s) == {i \in DOMAIN s : PromoWordAt(s, i)}

\* C21: with a prefix code in the text parse_promo_number returns the code of
\* the leftmost one, wherever the word PROMO stands; without a prefix code it
\* returns the integer after the leftmost word PROMO that has one, and nothing
\* without either
C21_PrefixCodeBeforeBareInteger ==
    eres.done =>
       IF PrefixCodes(etext) # {}
       THEN eres.val = CodeAt(etext, MinOf(PrefixCodes(etext)))
       ELSE IF PromoWords(etext) # {}
       THEN eres.val = BareIntegerAfter(etext, MinOf(PromoWords(etext)))
       ELSE eres.val = None

\* the word PROMO and its integer stand before the prefix code that is returned
C21_Witness ==
    /\ eres.done
    /\ PrefixCodes(etext) # {}
    /\ PromoWords(etext) # {}
    /\ MinOf(PromoWords(etext)) < MinOf(PrefixCodes(etext))
    /\ eres.val = CodeAt(etext, MinOf(PrefixCodes(etext)))

-----------------------------------------------------------------------------
(* Properties of extract_pokemon_name, checked under SpecName              *)

\* the words of a line that make its name: those of its letters, digits,
\* apostrophes, hyphens and ampersands that are neither a stopword nor a suffix
\* nor an ampersand alone
WordChars(ln) == [i \in DOMAIN ln |-> IF IsNameChar(ln[i]) THEN ln[i] ELSE " "]
NameWords(ln) ==
    SelectSeq(SplitWords(WordChars(ln)),
              LAMBDA t : Lower(t) \notin (STOPWORDS \cup CARD_SUFFIXES \cup {<<"&">>}))

\* the line passes every filter
LinePasses(ln) ==
    /\ \A tok \in BoilerplateTokens : ~Contains(Lower(ln), tok)
    /\ Cardinality({i \in DOMAIN ln : IsAlpha(ln[i])}) >= 4
    /\ NameWords(ln) # <<>>
    /\ Len(JoinWords(NameWords(ln))) \in 3..30

\* the non-empty lines of the text that are tried and pass
PassingLines(lines) == {i \in DOMAIN lines : i <= CandidateLines /\ LinePasses(lines[i])}

NameIsClean(name) ==
    /\ Len(name) \in 3..30
    /\ \A i \in DOMAIN SplitWords(name) :
          Lower(SplitWords(name)[i]) \notin (STOPWORDS \cup CARD_SUFFIXES)

\* C22: extract_pokemon_name returns the name of the earliest of the first 60
\* non-empty lines that passes every filter, and no name when none passes; a
\* returned name is 3 to 30 characters long and none of its tokens is a stopword
\* or a suffix
C22_NameOfEarliestPassingLine ==
    eres.done =>
       IF PassingLines(StrippedLines(etext)) = {}
       THEN eres.val = None
       ELSE /\ eres.val = JoinWords(NameWords(StrippedLines(etext)[MinOf(PassingLines(StrippedLines(etext)))]))
            /\ NameIsClean(eres.val)

\* a name is returned from a line that follows rejected lines, with a suffix
\* dropped from it
C22_Witness ==
    /\ eres.done
    /\ eres.val = Str_Umbreon
    /\ PassingLines(StrippedLines(etext)) # {}
    /\ MinOf(PassingLines(StrippedLines(etext))) = CandidateLines

------------------------------------------------------------------------------
(* scripts/backfill_ext_number.py: main fills the columns ext_number_raw   *)
(* and ext_number_norm of the cards that lack one of them.                 *)

MaxExtCards == 2
MaxExtRuns == 2

RECURSIVE LastNonBlank(_, _)
LastNonBlank(s, i) == IF i >= 1 /\ s[i] = " " THEN LastNonBlank(s, i - 1) ELSE i

\* TRIM(X) of SQLite: the spaces at both ends are removed, other whitespace
\* stays
SqlTrim(s) == SubSeq(s, SpanLen(s, IsBlankChar, 1) + 1, LastNonBlank(s, Len(s)))

\* lines 57-63: the WHERE clause of the SELECT
NeedsExt(c) ==
    /\ c.ext_number_raw = None \/ c.ext_number_norm = None
    /\ c.collector_number_raw # None
    /\ SqlTrim(c.collector_number_raw) # <<>>

\* mutant: the column takes the new value
COALESCE_new(old, new) == new

\* COALESCE(column, ?) of lines 74-75
COALESCE(old, new) == IF old = None THEN new ELSE old

\* lines 72-77: UPDATE cards SET ... WHERE product_id = ?
UpdateExt(cs, pid, ext_raw, ext_norm) ==
    [i \in DOMAIN cs |->
        IF cs[i].product_id = pid
        THEN [cs[i] EXCEPT !.ext_number_raw = COALESCE(@, ext_raw),
                           !.ext_number_norm = COALESCE(@, ext_norm)]
        ELSE cs[i]]

\* lines 66-78: the loop over the rows the SELECT returned
RECURSIVE BackfillRows(_, _)
BackfillRows(cs, rows) ==
    IF rows = <<>> THEN cs
    ELSE BackfillRows(UpdateExt(cs, rows[1].product_id, Strip(rows[1].collector_number_raw),
                                norm_ext_number(Strip(rows[1].collector_number_raw))),
                      Tail(rows))

\* lines 42-82: main, on the table cs
backfill_ext_number(cs) == BackfillRows(cs, SelectSeq(cs, NeedsExt))

\* the value the ext_number columns of a card had before the backfill
Str_old == <<"X", "1">>

\* printed numbers as the column collector_number_raw may hold them
ExtRawPool ==
    { None, <<>>, <<" ">>, <<"\t">>, <<" ", "S", "M", "0", "5", " ">>,
      <<"0", "5", "9", "/", "1", "3", "1">>, <<"1", "2", "\n">> }

ExtCard(pid, number, ext_raw, ext_norm) ==
    [product_id |-> pid, group_id |-> 10, product_name |-> Str_Pikachu,
     collector_number_raw |-> number,
     collector_number_norm |-> IF number = None THEN None ELSE normalize_collector_number(number),
     ext_number_raw |-> ext_raw, ext_number_norm |-> ext_norm]

ExtCards(pid) ==
    {ExtCard(pid, number, ext_raw, ext_norm) :
        number \in ExtRawPool, ext_raw \in {None, Str_old}, ext_norm \in {None, Str_old}}

\* tables of up to MaxExtCards cards; product_id is the key of the table
RECURSIVE ExtTablesOf(_)
ExtTablesOf(n) ==
    IF n = 0 THEN {<<>>}
    ELSE {Append(t, c) : t \in ExtTablesOf(n - 1), c \in ExtCards(n)}

ExtTables == UNION {ExtTablesOf(n) : n \in 0..MaxExtCards}

\* lines 42-82: one run of the script
BackfillExtNumber ==
    /\ dbExists
    /\ now < MaxExtRuns
    /\ now' = now + 1
    /\ cards' = backfill_ext_number(cards)
    /\ UNCHANGED <<prices_latest, dbExists, persist, ocr_runs, ocr_results, shown>>
    /\ UNCHANGED <<run, run_log, prices_history, delivered>>
    /\ UNCHANGED normVars
    /\ UNCHANGED filterVars
    /\ UNCHANGED extractVars
    /\ UNCHANGED fetchVars

InitExt ==
    /\ cards \in ExtTables
    /\ prices_latest = <<>>
    /\ dbExists = TRUE
    /\ persist = FALSE
    /\ ocr_runs = <<>>
    /\ ocr_results = <<>>
    /\ shown = NoRequest
    /\ IdleNorm
    /\ IdleFilter
    /\ IdleRefresh

NextExt == BackfillExtNumber

SpecExt == InitExt /\ [][NextExt]_vars

------------------------------------------------------------------------------
(* Properties of get_results, checked under SpecFetch                      *)

\* the attempt got HTTP OK and a JSON object with a list-valued "results"
Succeeds(resp) ==
    resp.raises = "none" /\ resp.status < 400 /\ resp.json = "object" /\ resp.results = "list"

Interrupted(resp) == resp.raises = "KeyboardInterrupt"

\* what get_results has made of the attempts so far
FetchIsSound ==
    /\ Len(fetch.log) <= fetch.retries
    /\ \A k \in 1..(Len(fetch.log) - 1) : ~Succeeds(fetch.log[k]) /\ ~Interrupted(fetch.log[k])
    /\ fetch.pc = "loop" => \A k \in DOMAIN fetch.log : ~Succeeds(fetch.log[k])
    /\ fetch.pc = "returned" =>
          /\ fetch.log # <<>>
          /\ Succeeds(fetch.log[Len(fetch.log)])
          /\ fetch.result = Returned(fetch.log[Len(fetch.log)].items)
    /\ (fetch.pc = "raised" /\ fetch.retries >= 1) =>
          /\ fetch.log # <<>>
          /\ ~Succeeds(fetch.log[Len(fetch.log)])
          /\ Len(fetch.log) = fetch.retries \/ Interrupted(fetch.log[Len(fetch.log)])
          /\ fetch.result.kind = "error"
          /\ fetch.result.err.attempt = Len(fetch.log)
          /\ fetch.result.err.class = AttemptError(fetch.log[Len(fetch.log)])

\* C27: get_results ends, after at most `retries` attempts. It returns the list
\* of the first attempt that got HTTP OK and a list-valued "results", and makes
\* no attempt after it; when every attempt has failed it raises the error of the
\* last one. A payload without a list-valued "results" is a failed attempt, and
\* the next attempt follows it
C27_GetResultsRetries ==
    /\ []FetchIsSound
    /\ <>(fetch.pc \in {"returned", "raised"})

\* the third attempt has been made after two failed ones, the first of them with
\* a payload that has no "results", and get_results has returned its list
C27_Witness ==
    /\ fetch.pc = "returned"
    /\ fetch.retries = 3
    /\ Len(fetch.log) = 3
    /\ fetch.log[1].json = "object"
    /\ fetch.log[1].results = "absent"
    /\ fetch.result.items = <<1>>

------------------------------------------------------------------------------
(* Properties of the ext-number backfill, checked under SpecExt            *)

\* the value a null ext column of the card c may take, given the value `set` the
\* backfill derives from the card's number: none for a null or empty number,
\* `set` for a number with a visible character, either for a number of
\* whitespace only
ExtFilled(c, new, set) ==
    IF c.collector_number_raw = None \/ c.collector_number_raw = <<>> THEN new = None
    ELSE IF Strip(c.collector_number_raw) # <<>> THEN new = set
    ELSE new \in {None, set}

\* a run of the backfill has left the card c as d
ExtKept(c, d) ==
    /\ d.product_id = c.product_id
    /\ d.group_id = c.group_id
    /\ d.product_name = c.product_name
    /\ d.collector_number_raw = c.collector_number_raw
    /\ d.collector_number_norm = c.collector_number_norm
    /\ IF c.ext_number_raw # None THEN d.ext_number_raw = c.ext_number_raw
       ELSE ExtFilled(c, d.ext_number_raw, Strip(c.collector_number_raw))
    /\ IF c.ext_number_norm # None THEN d.ext_number_norm = c.ext_number_norm
       ELSE ExtFilled(c, d.ext_number_norm, norm_ext_number(Strip(c.collector_number_raw)))

\* C28: a run of the ext-number backfill keeps every non-null ext_number_raw and
\* ext_number_norm, sets a null one from the trimmed collector_number_raw (its
\* norm_ext_number for the norm column) only for a card whose number is neither
\* null nor empty, leaves every other column and the set of cards as they were,
\* and a run that follows another changes nothing
C28_BackfillNeverOverwrites ==
    [][/\ Len(cards') = Len(cards)
       /\ \A i \in DOMAIN cards : ExtKept(cards[i], cards'[i])
       /\ now >= 1 => cards' = cards]_vars

\* after two runs a card printed " SM05 " has the trimmed number in the column
\* that was null and the old value in the column that was not
C28_Witness ==
    /\ now = 2
    /\ \E i \in DOMAIN cards :
          /\ cards[i].collector_number_raw = <<" ", "S", "M", "0", "5", " ">>
          /\ cards[i].ext_number_raw = <<"S", "M", "0", "5">>
          /\ cards[i].ext_number_norm = Str_old

====
